---- MODULE Spec2Model ----
(***************************************************************************)
(* A model of model/simulation_loader.py: the SimulationInit session, the  *)
(* Analysis objects bound to it and the Maxwell 3D backend they drive.     *)
(*                                                                         *)
(* One action per public method.  A method call is one atomic step: the    *)
(* layer is single-threaded and every backend call blocks.  The backend is *)
(* an external collaborator; the model records which backend calls each    *)
(* method issues (last.calls) and the few backend facts the layer relies   *)
(* on (project variables, object names, setups, windings, sweeps).         *)
(*                                                                         *)
(* Python strings whose characters the code inspects ('_' in name,         *)
(* name in obj, split('_', 1)) are sequences of tokens; a token is never   *)
(* split, so substring tests are tests on contiguous token runs.           *)
(***************************************************************************)
EXTENDS Integers, Sequences, FiniteSets, TLC

VARIABLES
    solution_type,    \* SimulationInit.solution_type
    maxwell_3d,       \* SimulationInit.maxwell_3d: FALSE is None, TRUE a Maxwell3d
    coil_names,       \* SimulationInit._coil_names
    cylinder_names,   \* SimulationInit._cylinder_names
    box_names,        \* SimulationInit._box_names
    coil_for_assign,  \* SimulationInit._coil_for_assign: a list of lists of object names
    crack_counter,    \* SimulationInit._crack_counter
    specimen_name,    \* SimulationInit._specimen_name
    boundary,         \* SimulationInit._boundary
    variable_names,   \* SimulationInit._variable_names: a list of one-key dicts
    setup_names,      \* Analysis._setup_names, one list per Analysis object
    backend_vars,     \* backend: project variables, "$"-name -> value string
    backend_objects,  \* backend: modeler object names, in creation order
    backend_setups,   \* backend: names given to create_setup, in call order
    backend_windings, \* backend: winding names given to assign_winding
    backend_sweeps,   \* backend: number of parametric sweeps added
    analyzed,         \* backend: analyze() has been run
    pc,               \* "running", or "exited" after sys.exit(0)
    last,             \* the last method call: its name, argument, outcome and backend calls
    max_retries,      \* delete_simulation_files: its argument
    retries,          \* delete_simulation_files: its local counter
    present,          \* the .aedt files under the working directory
    locked,           \* those of them whose removal raises
    failed_attempts,  \* how many deletion attempts of the running call have raised
    delete_pc,        \* position in delete_simulation_files
    instances,        \* SimulationInit._instances
    bound,            \* the Analysis and GetResult objects and their sim_init
    read              \* what the last operation through such an object read

session == <<solution_type, maxwell_3d, coil_names, cylinder_names, box_names,
             coil_for_assign, crack_counter, specimen_name, boundary, variable_names>>
backend == <<backend_vars, backend_objects, backend_setups, backend_windings,
             backend_sweeps, analyzed>>
cleanup == <<max_retries, retries, present, locked, failed_attempts, delete_pc>>
process == <<cleanup, instances, bound, read>>
vars == <<session, setup_names, backend, pc, last, process>>

----------------------------------------------------------------------------
(* Bounds of the model. *)

\* coils, cylinders, boxes and specimens registered in one run
MaxObjects == 2
\* project variables declared in one run, besides the built-in x, y, z
MaxVariables == 1
\* successful region_assign calls in one run
MaxRegions == 2
\* setup names recorded in one run, over all Analysis objects
MaxSetups == 2
\* parametric sweeps added in one run
MaxSweeps == 1
\* at most this many cracks are cut in one run
MaxCracks == 2
\* sessions constructed in one process
MaxSessions == 2
\* Analysis and GetResult objects constructed in one process
MaxBound == 2
\* the largest num_turns of a rectangle coil
MaxTurns == 3
\* the largest max_retries a caller passes
MaxRetries == 2
\* .aedt files under the working directory
MaxFiles == 2
\* deletion attempts of one call the model follows; more than MaxRetries + 1
MaxAttempts == 4

----------------------------------------------------------------------------
(* Inputs. *)

SolverTypes == {"Transient", "EddyCurrent", "Magnetostatic"}

E0 == <<"e", "0">>
E00 == <<"e", "0", "0">>
UnderName == <<"r", "_", "1">>
\* names given to the creators of coils, cylinders, boxes and specimens
ObjectNames == {E0, E00, UnderName}

\* names given to create_project_variable and to the variable arguments
VarNames == {"x", "h"}
VarValues == {"1"}
VarUnits == {"mm"}

\* the wire widths, step sizes and spacings given to the coil creators
Widths == {1, 2}

SetupNames == {"MySetup", "S2"}
\* the Analysis objects bound to the session
AnalysisIds == {1, 2}

----------------------------------------------------------------------------
(* Python helpers. *)

\* x in list
InList(x, list) == \E i \in DOMAIN list : list[i] = x

\* sub in s, for strings as token sequences
Contains(s, sub) ==
    \E i \in 0..(Len(s) - Len(sub)) :
        \A j \in 1..Len(sub) : s[i + j] = sub[j]

\* s.split('_', 1)[0]
SplitFirst(s) ==
    IF \E i \in DOMAIN s : s[i] = "_"
    THEN LET k == CHOOSE i \in DOMAIN s :
                      s[i] = "_" /\ \A j \in 1..(i - 1) : s[j] # "_"
         IN SubSeq(s, 1, k - 1)
    ELSE s

RECURSIVE SumLen(_, _)
SumLen(f, S) ==
    IF S = {} THEN 0
    ELSE LET a == CHOOSE a \in S : TRUE IN Len(f[a]) + SumLen(f, S \ {a})

\* a backend call and its arguments
Call(f, args) == [f |-> f, args |-> args]

\* the backend calls of `calls` named f
CallsOf(calls, f) == SelectSeq(calls, LAMBDA c : c.f = f)

\* the record of a method call: the method, the Analysis object it was called on
\* (0 for a method of SimulationInit), its first argument, the further arguments
\* the call got as far as reading, "ok", "error" or "exit", the exception raised
\* and the backend calls issued, in order
DoneWith(by, op, arg, input, outcome, err, calls) ==
    [op |-> op, by |-> by, arg |-> arg, input |-> input, outcome |-> outcome,
     err |-> err, calls |-> calls]

\* the call ended before it read any further argument
NoInput == [read |-> FALSE]

DoneBy(by, op, arg, outcome, err, calls) ==
    DoneWith(by, op, arg, NoInput, outcome, err, calls)

Done(op, arg, outcome, err, calls) == DoneBy(0, op, arg, outcome, err, calls)

\* the method of Analysis object `by` raised err after issuing no backend call
\* and changing nothing
RaiseBy(by, op, arg, err) ==
    /\ last' = DoneBy(by, op, arg, "error", err, <<>>)
    /\ UNCHANGED <<session, setup_names, backend, pc, process>>

\* the method raised err after issuing no backend call and changing nothing
Raise(op, arg, err) ==
    /\ last' = Done(op, arg, "error", err, <<>>)
    /\ UNCHANGED <<session, setup_names, backend, pc, process>>

\* the method raised err after the backend calls `calls`, changing nothing else
RaiseAfter(op, arg, err, calls) ==
    /\ last' = Done(op, arg, "error", err, calls)
    /\ UNCHANGED <<session, setup_names, backend, pc, process>>

\* the method of Analysis object `by` raised err after reading `input` and issuing
\* the backend calls `calls`, changing nothing else
RaiseWith(by, op, arg, input, err, calls) ==
    /\ last' = DoneWith(by, op, arg, input, "error", err, calls)
    /\ UNCHANGED <<session, setup_names, backend, pc, process>>

\* the registries of a run stay within the bounds of the model
ObjectCount ==
    Len(coil_names) + Len(cylinder_names) + Len(box_names) + Len(specimen_name)

Bounded ==
    /\ ObjectCount' <= MaxObjects
    /\ Len(variable_names') - 3 <= MaxVariables
    /\ Len(boundary') <= MaxRegions
    /\ SumLen(setup_names', AnalysisIds) <= MaxSetups
    /\ backend_sweeps' <= MaxSweeps

----------------------------------------------------------------------------
(* SimulationInit.__init__ and Analysis.__init__ *)

BuiltinVariables ==
    << [name |-> "x", value |-> <<"0", "_", "mm">>],
       [name |-> "y", value |-> <<"0", "_", "mm">>],
       [name |-> "z", value |-> <<"0", "_", "mm">>] >>

\* the registries of a session as __init__ leaves them
NewSession == [boundary |-> <<>>, variable_names |-> BuiltinVariables, coil_names |-> <<>>]

\* no operation has gone through an Analysis or GetResult object yet
NoRead == [by |-> 0]

\* delete_simulation_files is not running
InitCleanup ==
    /\ max_retries = 0
    /\ retries = 0
    /\ present = {}
    /\ locked = {}
    /\ failed_attempts = 0
    /\ delete_pc = "idle"

\* one session was constructed and no Analysis or GetResult object yet
InitProcess ==
    /\ InitCleanup
    /\ instances = <<NewSession>>
    /\ bound = <<>>
    /\ read = NoRead

Init ==
    /\ InitProcess
    /\ solution_type \in SolverTypes
    /\ maxwell_3d = FALSE
    /\ coil_names = <<>>
    /\ cylinder_names = <<>>
    /\ box_names = <<>>
    /\ coil_for_assign = <<>>
    /\ crack_counter = 0
    /\ specimen_name = <<>>
    /\ boundary = <<>>
    /\ variable_names = BuiltinVariables
    /\ setup_names = [a \in AnalysisIds |-> <<>>]
    /\ backend_vars = <<>>
    /\ backend_objects = <<>>
    /\ backend_setups = <<>>
    /\ backend_windings = {}
    /\ backend_sweeps = 0
    /\ analyzed = FALSE
    /\ pc = "running"
    /\ last = Done("__init__", <<>>, "ok", "none", <<>>)

----------------------------------------------------------------------------
(* SimulationInit.simulation_init *)

\* m3d["$" + name] = value: the backend keeps one value per variable name
SetBackendVar(bv, name, value) ==
    IF \E i \in DOMAIN bv : bv[i].name = name
    THEN [i \in DOMAIN bv |->
            IF bv[i].name = name THEN [name |-> name, value |-> value] ELSE bv[i]]
    ELSE Append(bv, [name |-> name, value |-> value])

simulation_init ==
    /\ pc = "running"
    /\ IF solution_type \notin {"Transient", "EddyCurrent"}
       THEN Raise("simulation_init", <<>>, "ValueError")
       ELSE /\ maxwell_3d' = TRUE
            /\ backend_vars' =
                 SetBackendVar(SetBackendVar(SetBackendVar(backend_vars,
                     "x", <<"0", " ", "mm">>), "y", <<"0", " ", "mm">>),
                     "z", <<"0", " ", "mm">>)
            /\ last' = Done("simulation_init", <<>>, "ok", "none",
                            << Call("Maxwell3d", <<solution_type>>),
                               Call("set_variable", <<"x">>),
                               Call("set_variable", <<"y">>),
                               Call("set_variable", <<"z">>) >>)
            /\ UNCHANGED <<solution_type, coil_names, cylinder_names, box_names,
                           coil_for_assign, crack_counter, specimen_name, boundary,
                           variable_names, setup_names, backend_objects,
                           backend_setups, backend_windings, backend_sweeps,
                           analyzed, pc, process>>

----------------------------------------------------------------------------
(* SimulationInit.create_project_variable *)

\* the test for a missing backend is left out
NoneCheckLeftOut == FALSE

\* self.maxwell_3d is None
NotInitialized == ~maxwell_3d

\* all(variable_name in var_dict for var_dict in self._variable_names)
VariableAlreadyExisted(name) ==
    \A i \in DOMAIN variable_names : variable_names[i].name = name

create_project_variable(kw, name, value, unit) ==
    /\ pc = "running"
    /\ IF kw THEN Raise("create_project_variable", name, "TypeError")
       ELSE IF VariableAlreadyExisted(name)
       THEN Raise("create_project_variable", name, "ValueError")
       ELSE IF NotInitialized
       THEN Raise("create_project_variable", name, "ValueError")
       ELSE /\ backend_vars' = SetBackendVar(backend_vars, name, <<value, unit>>)
            /\ variable_names' =
                 Append(variable_names, [name |-> name, value |-> <<value, "_", unit>>])
            /\ last' = Done("create_project_variable", name, "ok", "none",
                            << Call("set_working_coordinate_system", <<"Global">>),
                               Call("set_variable", <<name>>) >>)
            /\ UNCHANGED <<solution_type, maxwell_3d, coil_names, cylinder_names,
                           box_names, coil_for_assign, crack_counter, specimen_name,
                           boundary, setup_names, backend_objects, backend_setups,
                           backend_windings, backend_sweeps, analyzed, pc, process>>
    /\ Bounded

----------------------------------------------------------------------------
(* The coil creators of SimulationInit *)

\* name + suffix
Suffixed(name, suffix) == name \o <<"_", suffix>>

\* the object the backend's section() leaves for a coil, once the bodies were
\* separated and the "Separate" objects deleted
SectionOf(name) == name \o <<"_", "Section", "1">>

\* [obj for obj in get_objects_w_string("") if name in obj and "Section" in obj]
SectionObjects(objects, name) ==
    SelectSeq(objects, LAMBDA obj : Contains(obj, name) /\ Contains(obj, <<"Section">>))

\* only the first character of the name is looked at
StartsWithSeparator(name) == name # <<>> /\ name[1] = "_"

\* "_" in name
HasSeparator(name) == Contains(name, <<"_">>)

\* the duplicate check reads another registry
CoilNameExistedAsCylinder(name) == InList(name, cylinder_names)

\* name in self._coil_names
CoilNameExisted(name) == InList(name, coil_names)

\* section(), separate_bodies(), delete() and the final list comprehension,
\* shared by the four creators
SectionCalls(name) ==
    << Call("create_coordinate_system", <<Suffixed(name, "for_section")>>),
       Call("section", <<name>>),
       Call("separate_bodies", <<SectionOf(name)>>),
       Call("delete", <<"Separate">>) >>

RegisterSectionsWith(name, input, calls, op) ==
    LET objects == backend_objects \o <<name, SectionOf(name)>>
    IN /\ coil_names' = Append(coil_names, name)
       /\ backend_objects' = objects
       /\ coil_for_assign' = Append(coil_for_assign, SectionObjects(objects, name))
       /\ last' = DoneWith(0, op, name, input, "ok", "none", calls)
       /\ UNCHANGED <<solution_type, maxwell_3d, cylinder_names, box_names,
                      crack_counter, specimen_name, boundary, variable_names,
                      setup_names, backend_vars, backend_setups, backend_windings,
                      backend_sweeps, analyzed, pc, process>>

RegisterSections(name, calls, op) == RegisterSectionsWith(name, NoInput, calls, op)

\* the pitch of the turns and the width of the wire, as the creator got them
PitchInput(pitch, wire_width) == [pitch |-> pitch, wire_width |-> wire_width]

\* a pitch equal to the wire width is let through
PitchSmaller(pitch, wire_width) == pitch < wire_width

\* step_size <= wire_width, spacing <= wire_width
PitchTooSmall(pitch, wire_width) == pitch <= wire_width

\* num_turns, the initial lengths and the wire height of a rectangle coil,
\* all lengths in one unit
Shapes ==
    [num_turns : 1..MaxTurns, initial_x_length : {1, 2}, initial_y_length : {1, 2},
     wire_height : {1, 3}]

\* the shape the specifications that are not about the path give every coil
OneTurnShape ==
    [num_turns |-> 1, initial_x_length |-> 1, initial_y_length |-> 1, wire_height |-> 1]

\* x[-1]
Last(list) == list[Len(list)]

\* the lists x and y and the two running lengths before the first turn
PathStart(shape) ==
    [x |-> <<0>>, y |-> <<0>>,
     x_length |-> shape.initial_x_length, y_length |-> shape.initial_y_length]

\* the running lengths are not increased between the sides of a turn
OneTurnOfEqualSides(st, step_size) ==
    LET x1 == Append(st.x, Last(st.x) + st.x_length)
        y1 == Append(st.y, Last(st.y))
        x2 == Append(x1, Last(x1))
        y2 == Append(y1, Last(y1) + st.y_length)
        x3 == Append(x2, Last(x2) - st.x_length)
        y3 == Append(y2, Last(y2))
        x4 == Append(x3, Last(x3))
        y4 == Append(y3, Last(y3) - st.y_length)
    IN [x |-> x4, y |-> y4,
        x_length |-> st.x_length + step_size, y_length |-> st.y_length + step_size]

\* one pass of the loop body: four points, each length raised after its use
OneTurn(st, step_size) ==
    LET x1 == Append(st.x, Last(st.x) + st.x_length)
        y1 == Append(st.y, Last(st.y))
        xl1 == st.x_length + step_size
        x2 == Append(x1, Last(x1))
        y2 == Append(y1, Last(y1) + st.y_length)
        yl1 == st.y_length + step_size
        x3 == Append(x2, Last(x2) - xl1)
        y3 == Append(y2, Last(y2))
        xl2 == xl1 + step_size
        x4 == Append(x3, Last(x3))
        y4 == Append(y3, Last(y3) - yl1)
        yl2 == yl1 + step_size
    IN [x |-> x4, y |-> y4, x_length |-> xl2, y_length |-> yl2]

\* for i in range(num_turns)
RECURSIVE SpiralTurns(_, _, _)
SpiralTurns(n, st, step_size) ==
    IF n = 0 THEN st ELSE SpiralTurns(n - 1, OneTurn(st, step_size), step_size)

\* path = list(zip(x, y, z)) after the closing point; z is 0 throughout
RectanglePath(shape, step_size) ==
    LET st == SpiralTurns(shape.num_turns, PathStart(shape), step_size)
        x == Append(st.x, st.x[1] + shape.wire_height)
        y == Append(st.y, Last(st.y))
    IN [i \in DOMAIN x |-> <<x[i], y[i]>>]

\* the arguments create_rectangle_coil read after its name checks
RectangleInput(step_size, wire_width, shape) ==
    [pitch |-> step_size, wire_width |-> wire_width, shape |-> shape]

\* the backend calls of create_rectangle_coil up to the move of the coil
RectangleCoilCalls(name, path) ==
    << Call("create_polyline", <<Suffixed(name, "coil_path"), path>>),
       Call("create_rectangle", <<name>>),
       Call("sweep_along_path", <<name>>),
       Call("create_polyline", <<Suffixed(name, "loop_path")>>),
       Call("create_loop_section", <<Suffixed(name, "loop")>>),
       Call("sweep_along_path", <<Suffixed(name, "loop")>>),
       Call("unite", <<name>>),
       Call("assign_material", <<name>>),
       Call("move", <<name>>) >>

SweptCoilCalls(name) ==
    << Call("create_polyline", <<Suffixed(name, "coil_path")>>),
       Call("create_rectangle", <<name>>),
       Call("sweep_along_path", <<name>>),
       Call("create_polyline", <<Suffixed(name, "loop_path")>>),
       Call("create_loop_section", <<Suffixed(name, "loop")>>),
       Call("sweep_along_path", <<Suffixed(name, "loop")>>),
       Call("unite", <<name>>),
       Call("assign_material", <<name>>),
       Call("move", <<name>>) >>

create_rectangle_coil(kw, name, shape) ==
    /\ pc = "running"
    /\ IF kw THEN Raise("create_rectangle_coil", name, "TypeError")
       ELSE IF HasSeparator(name) THEN Raise("create_rectangle_coil", name, "ValueError")
       ELSE IF NotInitialized THEN Raise("create_rectangle_coil", name, "ValueError")
       ELSE IF CoilNameExisted(name) THEN Raise("create_rectangle_coil", name, "ValueError")
       ELSE \E step_size \in Widths, wire_width \in Widths :
              IF PitchTooSmall(step_size, wire_width)
              THEN RaiseWith(0, "create_rectangle_coil", name,
                             RectangleInput(step_size, wire_width, shape),
                             "ValueError", <<>>)
              ELSE RegisterSectionsWith(name, RectangleInput(step_size, wire_width, shape),
                                        RectangleCoilCalls(name,
                                                           RectanglePath(shape, step_size))
                                        \o SectionCalls(name),
                                        "create_rectangle_coil")
    /\ Bounded

create_spiral_coil(kw, name) ==
    /\ pc = "running"
    /\ IF kw THEN Raise("create_spiral_coil", name, "TypeError")
       ELSE IF HasSeparator(name) THEN Raise("create_spiral_coil", name, "ValueError")
       ELSE \E spacing \in Widths, wire_width \in Widths :
              LET input == PitchInput(spacing, wire_width) IN
              IF PitchTooSmall(spacing, wire_width)
              THEN RaiseWith(0, "create_spiral_coil", name, input, "ValueError", <<>>)
              ELSE IF NotInitialized
              THEN RaiseWith(0, "create_spiral_coil", name, input, "ValueError", <<>>)
              ELSE IF CoilNameExisted(name)
              THEN RaiseWith(0, "create_spiral_coil", name, input, "ValueError", <<>>)
              ELSE RegisterSectionsWith(name, input,
                                        SweptCoilCalls(name) \o SectionCalls(name),
                                        "create_spiral_coil")
    /\ Bounded

AnnulusCalls(name) ==
    << Call("create_cylinder", <<Suffixed(name, "inner")>>),
       Call("create_cylinder", <<name>>),
       Call("subtract", <<name, Suffixed(name, "inner")>>) >>

create_helmholtz_coils(kw, name) ==
    /\ pc = "running"
    /\ IF kw THEN Raise("create_helmholtz_coils", name, "TypeError")
       ELSE IF HasSeparator(name) THEN Raise("create_helmholtz_coils", name, "ValueError")
       ELSE IF NotInitialized THEN Raise("create_helmholtz_coils", name, "ValueError")
       ELSE IF CoilNameExisted(name) THEN Raise("create_helmholtz_coils", name, "ValueError")
       ELSE RegisterSections(name, AnnulusCalls(name) \o SectionCalls(name),
                             "create_helmholtz_coils")
    /\ Bounded

LitzTypes == {"Rectangular", "Round", "Square"}

\* the name is appended (line 641) before the material and the wire type are
\* checked (lines 651-671): both errors leave it registered
LitzRaise(name, calls) ==
    /\ coil_names' = Append(coil_names, name)
    /\ last' = Done("create_circular_litz_coils", name, "error", "ValueError", calls)
    /\ UNCHANGED <<solution_type, maxwell_3d, cylinder_names, box_names,
                   coil_for_assign, crack_counter, specimen_name, boundary,
                   variable_names, setup_names, backend, pc, process>>

create_circular_litz_coils(kw, name) ==
    LET pre == << Call("set_working_coordinate_system", <<"Global">>),
                  Call("create_coordinate_system", <<Suffixed(name, "for_section")>>),
                  Call("set_working_coordinate_system", <<Suffixed(name, "for_section")>>) >>
        dup == << Call("duplicate_material", <<name>>) >>
    IN
    /\ pc = "running"
    /\ IF kw THEN Raise("create_circular_litz_coils", name, "TypeError")
       ELSE IF HasSeparator(name)
       THEN Raise("create_circular_litz_coils", name, "ValueError")
       ELSE IF NotInitialized THEN Raise("create_circular_litz_coils", name, "ValueError")
       ELSE IF CoilNameExisted(name)
       THEN Raise("create_circular_litz_coils", name, "ValueError")
       \* exists_material(material) is the backend's answer
       ELSE \E material_exists \in BOOLEAN, type \in LitzTypes :
              IF ~material_exists THEN LitzRaise(name, pre)
              ELSE IF type \notin {"Rectangular", "Round"} THEN LitzRaise(name, pre \o dup)
              ELSE RegisterSections(name,
                       pre \o dup \o AnnulusCalls(name)
                           \o << Call("assign_material", <<name>>),
                                 Call("section", <<name>>),
                                 Call("separate_bodies", <<SectionOf(name)>>),
                                 Call("delete", <<"Separate">>) >>,
                       "create_circular_litz_coils")
    /\ Bounded

----------------------------------------------------------------------------
(* create_cylinder, create_box, create_specimen, specimen_with_crack *)

create_cylinder(kw, name) ==
    /\ pc = "running"
    /\ IF kw THEN Raise("create_cylinder", name, "TypeError")
       ELSE IF NotInitialized THEN Raise("create_cylinder", name, "ValueError")
       ELSE IF InList(name, cylinder_names) THEN Raise("create_cylinder", name, "ValueError")
       ELSE /\ cylinder_names' = Append(cylinder_names, name)
            /\ backend_objects' = Append(backend_objects, name)
            /\ last' = Done("create_cylinder", name, "ok", "none",
                            << Call("set_working_coordinate_system", <<"Global">>),
                               Call("create_cylinder", <<name>>),
                               Call("create_cylinder", <<Suffixed(name, "inner")>>),
                               Call("subtract", <<name, Suffixed(name, "inner")>>) >>)
            /\ UNCHANGED <<solution_type, maxwell_3d, coil_names, box_names,
                           coil_for_assign, crack_counter, specimen_name, boundary,
                           variable_names, setup_names, backend_vars, backend_setups,
                           backend_windings, backend_sweeps, analyzed, pc, process>>
    /\ Bounded

create_box(kw, name) ==
    /\ pc = "running"
    /\ IF kw THEN Raise("create_box", name, "TypeError")
       ELSE IF NotInitialized THEN Raise("create_box", name, "ValueError")
       ELSE IF InList(name, box_names) THEN Raise("create_box", name, "ValueError")
       ELSE /\ box_names' = Append(box_names, name)
            /\ backend_objects' = Append(backend_objects, name)
            /\ last' = Done("create_box", name, "ok", "none",
                            << Call("set_working_coordinate_system", <<"Global">>),
                               Call("create_box", <<name>>) >>)
            /\ UNCHANGED <<solution_type, maxwell_3d, coil_names, cylinder_names,
                           coil_for_assign, crack_counter, specimen_name, boundary,
                           variable_names, setup_names, backend_vars, backend_setups,
                           backend_windings, backend_sweeps, analyzed, pc, process>>
    /\ Bounded

create_specimen(kw, name) ==
    /\ pc = "running"
    /\ IF kw THEN Raise("create_specimen", name, "TypeError")
       ELSE IF NotInitialized THEN Raise("create_specimen", name, "ValueError")
       ELSE IF InList(name, specimen_name) THEN Raise("create_specimen", name, "ValueError")
       ELSE /\ specimen_name' = Append(specimen_name, name)
            /\ backend_objects' = Append(backend_objects, name)
            /\ last' = Done("create_specimen", name, "ok", "none",
                            << Call("set_working_coordinate_system", <<"Global">>),
                               Call("create_box", <<name>>),
                               Call("assign_material", <<name>>) >>)
            /\ UNCHANGED <<solution_type, maxwell_3d, coil_names, cylinder_names,
                           box_names, coil_for_assign, crack_counter, boundary,
                           variable_names, setup_names, backend_vars, backend_setups,
                           backend_windings, backend_sweeps, analyzed, pc, process>>
    /\ Bounded

\* the crack is numbered with the counter as it stands
CrackNameFromCounter(name, counter) == name \o <<"_", "crack", "_", ToString(counter)>>

\* f"{specimen_name}_crack_{self._crack_counter + 1}"
CrackName(name, counter) == name \o <<"_", "crack", "_", ToString(counter + 1)>>

specimen_with_crack(kw, name) ==
    /\ pc = "running"
    /\ IF kw THEN Raise("specimen_with_crack", name, "TypeError")
       ELSE IF NotInitialized THEN Raise("specimen_with_crack", name, "ValueError")
       ELSE IF ~InList(name, specimen_name)
       THEN Raise("specimen_with_crack", name, "ValueError")
       ELSE /\ crack_counter < MaxCracks
            /\ crack_counter' = crack_counter + 1
            /\ last' = Done("specimen_with_crack", name, "ok", "none",
                            << Call("create_box", <<CrackName(name, crack_counter)>>),
                               Call("subtract", <<name, CrackName(name, crack_counter)>>) >>)
            /\ UNCHANGED <<solution_type, maxwell_3d, coil_names, cylinder_names,
                           box_names, coil_for_assign, specimen_name, boundary,
                           variable_names, setup_names, backend, pc, process>>

----------------------------------------------------------------------------
(* SimulationInit.length_mesh and SimulationInit.skin_depth_mesh *)

\* object_name: a str, a list of str, or a value of another type
MeshObjects ==
    { [t |-> "str", v |-> n] : n \in {E0, E00} }
    \cup { [t |-> "list", v |-> l] : l \in {<<>>, <<E0>>, <<E00>>, <<E0, E00>>} }
    \cup { [t |-> "other", v |-> <<>>] }

\* mesh_size: a float or int, a list of them, or a value of another type
MeshSizes ==
    { [t |-> "number", v |-> 1] }
    \cup { [t |-> "list", v |-> l] : l \in {<<>>, <<1>>, <<1, 2>>} }
    \cup { [t |-> "other", v |-> 0] }

\* obj not in self._coil_names and obj not in self._specimen_name
ObjectNotFound(obj) == ~InList(obj, coil_names) /\ ~InList(obj, specimen_name)

\* the loop over object_name raises at the first name not found
SomeObjectNotFound(names) == \E i \in DOMAIN names : ObjectNotFound(names[i])

\* f"{size} mm"
MeshStr(size) == <<ToString(size), " mm">>

\* the method ended after reading mesh_size
MeshDone(object_name, mesh_size, outcome, err, calls) ==
    /\ last' = DoneWith(0, "length_mesh", object_name,
                        [read |-> TRUE, mesh_size |-> mesh_size], outcome, err, calls)
    /\ UNCHANGED <<session, setup_names, backend, pc, process>>

length_mesh(kw, object_name, mesh_size) ==
    /\ pc = "running"
    /\ IF kw THEN Raise("length_mesh", object_name, "TypeError")
       ELSE IF object_name.t = "str" /\ mesh_size.t = "number"
       THEN IF ObjectNotFound(object_name.v)
            THEN MeshDone(object_name, mesh_size, "error", "ValueError", <<>>)
            ELSE IF ~maxwell_3d
            THEN MeshDone(object_name, mesh_size, "error", "AttributeError", <<>>)
            ELSE MeshDone(object_name, mesh_size, "ok", "none",
                          << Call("assign_length_mesh",
                                  <<object_name.v, MeshStr(mesh_size.v)>>),
                             Call("eddy_effects_on", <<object_name.v>>) >>)
       ELSE IF object_name.t = "list" /\ mesh_size.t = "list"
       THEN IF SomeObjectNotFound(object_name.v)
            THEN MeshDone(object_name, mesh_size, "error", "ValueError", <<>>)
            ELSE IF Len(object_name.v) # Len(mesh_size.v)
            THEN MeshDone(object_name, mesh_size, "error", "ValueError", <<>>)
            ELSE IF ~maxwell_3d
            THEN MeshDone(object_name, mesh_size, "error", "AttributeError", <<>>)
            ELSE MeshDone(object_name, mesh_size, "ok", "none",
                          [i \in 1..Len(object_name.v) |->
                             Call("assign_length_mesh",
                                  <<object_name.v[i], MeshStr(mesh_size.v[i])>>)]
                          \o << Call("eddy_effects_on", <<object_name.v>>) >>)
       ELSE IF object_name.t = "list" /\ mesh_size.t = "number"
       THEN IF ~maxwell_3d
            THEN MeshDone(object_name, mesh_size, "error", "AttributeError", <<>>)
            ELSE MeshDone(object_name, mesh_size, "ok", "none",
                          << Call("assign_length_mesh",
                                  <<object_name.v, MeshStr(mesh_size.v)>>),
                             Call("eddy_effects_on", <<object_name.v>>) >>)
       ELSE MeshDone(object_name, mesh_size, "error", "ValueError", <<>>)

skin_depth_mesh(kw, object_name) ==
    /\ pc = "running"
    /\ IF kw THEN Raise("skin_depth_mesh", object_name, "TypeError")
       ELSE IF object_name.t = "list"
       THEN IF SomeObjectNotFound(object_name.v)
            THEN Raise("skin_depth_mesh", object_name, "ValueError")
            ELSE IF ~maxwell_3d
            THEN Raise("skin_depth_mesh", object_name, "AttributeError")
            ELSE /\ last' = Done("skin_depth_mesh", object_name, "ok", "none",
                                 << Call("assign_skin_depth", <<object_name.v>>),
                                    Call("eddy_effects_on", <<object_name.v>>) >>)
                 /\ UNCHANGED <<session, setup_names, backend, pc, process>>
       ELSE Raise("skin_depth_mesh", object_name, "ValueError")

----------------------------------------------------------------------------
(* SimulationInit.region_assign *)

\* the shapes of boundaries_size the method tells apart
BoundarySizes == {"number", "list6", "list5", "str"}

\* the length test refuses every list
EveryListRejected(boundaries_size) == boundaries_size \in {"list6", "list5", "str"}

\* a list of another length than 6, or a value that is no int, float or list
BoundarySizeRejected(boundaries_size) == boundaries_size \in {"list5", "str"}

\* the radiation boundary is assigned whatever the solver
RegionCallsWithRadiation(boundaries_size) ==
    << Call("create_air_region", <<boundaries_size>>),
       Call("assign_radiation", <<"Region">>) >>

\* create_air_region, then assign_radiation(region) if the solver is EddyCurrent
RegionCalls(boundaries_size) ==
    << Call("create_air_region", <<boundaries_size>>) >>
    \o (IF solution_type = "EddyCurrent"
        THEN << Call("assign_radiation", <<"Region">>) >>
        ELSE <<>>)

region_assign(kw, boundaries_size) ==
    /\ pc = "running"
    /\ IF kw THEN Raise("region_assign", boundaries_size, "TypeError")
       ELSE IF BoundarySizeRejected(boundaries_size)
       THEN Raise("region_assign", boundaries_size, "ValueError")
       \* self.maxwell_3d.modeler on None
       ELSE IF ~maxwell_3d THEN Raise("region_assign", boundaries_size, "AttributeError")
       ELSE /\ boundary' = Append(boundary, "Region")
            /\ last' = Done("region_assign", boundaries_size, "ok", "none",
                            RegionCalls(boundaries_size))
            /\ UNCHANGED <<solution_type, maxwell_3d, coil_names, cylinder_names,
                           box_names, coil_for_assign, crack_counter, specimen_name,
                           variable_names, setup_names, backend, pc, process>>
    /\ Bounded

----------------------------------------------------------------------------
(* The excitation methods of SimulationInit *)

\* the values given as amplitude, phase and frequency: a Python int, a Python
\* float, or a str naming a project variable; v is the value's str()
Numbers == { [t |-> "int", v |-> "10"], [t |-> "float", v |-> "4.0"] }
NamedValues == { [t |-> "str", v |-> n] : n \in VarNames }
ExcitationTypes == {"Voltage", "Current", "Power"}

\* the variable check asks for the name in every dict, as line 160 does
VariableInEveryDict(name) == \A i \in DOMAIN variable_names : variable_names[i].name = name

\* any(name in var_dict for var_dict in self._variable_names)
VariableDeclared(name) == \E i \in DOMAIN variable_names : variable_names[i].name = name

\* the lookup takes every section list whose first object contains the name
TargetObjectsBySubstring(coil_name) ==
    LET hits == SelectSeq(coil_for_assign, LAMBDA obj : Contains(obj[1], coil_name))
    IN [i \in DOMAIN hits |-> hits[i][1]]

\* [obj[0] for obj in self._coil_for_assign if obj[0].split('_', 1)[0] == coil_name]
TargetObjects(coil_name) ==
    LET hits == SelectSeq(coil_for_assign, LAMBDA obj : SplitFirst(obj[1]) = coil_name)
    IN [i \in DOMAIN hits |-> hits[i][1]]

\* obj[0] of an empty section list
SomeSectionListEmpty == \E i \in DOMAIN coil_for_assign : coil_for_assign[i] = <<>>

Winding(coil_name) == Suffixed(coil_name, "for_winding")
CoilPath(coil_name) == Suffixed(coil_name, "for_coil")

\* assign_coil, assign_winding for Voltage and Current only, add_winding_coils
Excite(op, coil_name, input, excitation_type, value, phase) ==
    /\ backend_windings' =
         IF excitation_type \in {"Voltage", "Current"}
         THEN backend_windings \cup {Winding(coil_name)}
         ELSE backend_windings
    /\ last' = DoneWith(0, op, coil_name, input, "ok", "none",
                    << Call("assign_coil", <<TargetObjects(coil_name), CoilPath(coil_name)>>) >>
                    \o (IF excitation_type \in {"Voltage", "Current"}
                        THEN << Call("assign_winding",
                                     <<Winding(coil_name), excitation_type, value, phase>>) >>
                        ELSE <<>>)
                    \o << Call("add_winding_coils",
                               <<Winding(coil_name), CoilPath(coil_name)>>) >>)
    /\ UNCHANGED <<session, setup_names, backend_vars, backend_objects,
                   backend_setups, backend_sweeps, analyzed, pc, process>>

\* the mode checks accept every solver type simulation_init accepts
SolverIsKnown == solution_type \in {"Transient", "EddyCurrent"}

\* self.solution_type == 'Transient'
SolverIsTransient == solution_type = "Transient"

\* self.solution_type == 'EddyCurrent'
SolverIsEddyCurrent == solution_type = "EddyCurrent"

transient_type_assign_excitation(kw, coil_name) ==
    /\ pc = "running"
    /\ IF kw THEN Raise("transient_type_assign_excitation", coil_name, "TypeError")
       ELSE IF ~SolverIsTransient
       THEN Raise("transient_type_assign_excitation", coil_name, "ValueError")
       ELSE IF SomeSectionListEmpty
       THEN Raise("transient_type_assign_excitation", coil_name, "IndexError")
       ELSE IF TargetObjects(coil_name) = <<>>
       THEN Raise("transient_type_assign_excitation", coil_name, "ValueError")
       ELSE \E excitation_type \in ExcitationTypes :
              Excite("transient_type_assign_excitation", coil_name,
                     [excitation_type |-> excitation_type], excitation_type,
                     <<"10*sin(2*pi*1e6*Time+0)",
                       IF excitation_type = "Voltage" THEN "V" ELSE "A">>, <<>>)

\* f"{amplitude} V", f"{amplitude} A", f"{phase} deg", f"{frequency} MHz"
Literal(number, unit) == <<number.v, " ", unit>>
\* "$" + name
Reference(name) == <<"$", name>>

\* excitation_type, amplitude and phase as ec_type_assign_excitation got them
ExciteInput(excitation_type, amplitude, phase) ==
    [excitation_type |-> excitation_type, amplitude |-> amplitude, phase |-> phase]

ec_type_assign_excitation(kw, coil_name) ==
    /\ pc = "running"
    /\ IF kw THEN Raise("ec_type_assign_excitation", coil_name, "TypeError")
       ELSE IF ~SolverIsEddyCurrent
       THEN Raise("ec_type_assign_excitation", coil_name, "ValueError")
       ELSE IF SomeSectionListEmpty
       THEN Raise("ec_type_assign_excitation", coil_name, "IndexError")
       ELSE \E excitation_type \in ExcitationTypes,
               amplitude \in Numbers \cup NamedValues, phase \in Numbers \cup NamedValues :
         LET input == ExciteInput(excitation_type, amplitude, phase) IN
         IF amplitude.t = "str" /\ ~VariableDeclared(amplitude.v)
         THEN RaiseWith(0, "ec_type_assign_excitation", coil_name, input, "ValueError", <<>>)
         ELSE IF phase.t = "str" /\ ~VariableDeclared(phase.v)
         THEN RaiseWith(0, "ec_type_assign_excitation", coil_name, input, "ValueError", <<>>)
         ELSE IF TargetObjects(coil_name) = <<>>
         THEN RaiseWith(0, "ec_type_assign_excitation", coil_name, input, "ValueError", <<>>)
         \* amplitude_str is bound for Voltage and Current with a float or a str,
         \* phase_str for a float or a str; an unbound one is read when the
         \* arguments of assign_winding are built, after assign_coil
         ELSE IF /\ excitation_type \in {"Voltage", "Current"}
                 /\ (amplitude.t = "int" \/ phase.t = "int")
         THEN RaiseWith(0, "ec_type_assign_excitation", coil_name, input,
                        "UnboundLocalError",
                        << Call("assign_coil",
                                <<TargetObjects(coil_name), CoilPath(coil_name)>>) >>)
         ELSE Excite("ec_type_assign_excitation", coil_name, input, excitation_type,
                     IF amplitude.t = "str" THEN Reference(amplitude.v)
                     ELSE Literal(amplitude,
                                  IF excitation_type = "Voltage" THEN "V" ELSE "A"),
                     IF phase.t = "str" THEN Reference(phase.v) ELSE Literal(phase, "deg"))

----------------------------------------------------------------------------
(* Analysis.transient_analysis and Analysis.ec_analysis *)

\* the region check is left out
RegionCheckLeftOut == TRUE

\* 'Region' in self.sim_init._boundary
RegionAssigned == InList("Region", boundary)

\* setup_name in self._setup_names
SetupNameExisted(a, setup_name) == InList(setup_name, setup_names[a])

\* the time arguments of transient_analysis, in us
TransientTimes ==
    { [stop_time |-> 2, time_step |-> 1, n_steps |-> 1, steps_from |-> 0, steps_to |-> 1],
      [stop_time |-> 1, time_step |-> 1, n_steps |-> 1, steps_from |-> 0, steps_to |-> 1],
      [stop_time |-> 2, time_step |-> 0, n_steps |-> 1, steps_from |-> 0, steps_to |-> 1],
      [stop_time |-> 2, time_step |-> 1, n_steps |-> 0, steps_from |-> 0, steps_to |-> 1],
      [stop_time |-> 2, time_step |-> 1, n_steps |-> 1, steps_from |-> 1, steps_to |-> 1],
      [stop_time |-> 2, time_step |-> 1, n_steps |-> 1, steps_from |-> -1, steps_to |-> 1] }

\* pre_save_file, pre_stop, save_simulation, sole_solve
AnalysisFlags ==
    [pre_save_file : BOOLEAN, pre_stop : BOOLEAN, save_simulation : BOOLEAN,
     sole_solve : BOOLEAN]

\* the first check lets a stop time equal to the time step through
TimesRejectedStrictly(t) ==
    \/ t.stop_time < t.time_step
    \/ t.time_step <= 0
    \/ t.n_steps <= 0
    \/ t.steps_from >= t.steps_to
    \/ t.steps_from < 0

\* lines 1426-1435
TimesRejected(t) ==
    \/ t.stop_time <= t.time_step
    \/ t.time_step <= 0
    \/ t.n_steps <= 0
    \/ t.steps_from >= t.steps_to
    \/ t.steps_from < 0

\* the build-only exit is taken only when the project was saved
StopsOnlyIfSaved(flags) == flags.pre_stop /\ flags.pre_save_file

\* pre_stop == True
StopsAfterBuild(flags) == flags.pre_stop

\* len(self.sim_init._variable_names) == 3, or sole_solve
SolvesNow(flags) == Len(variable_names) = 3 \/ flags.sole_solve

\* from create_setup to the return: save, stop or solve, save
RunSetup(op, a, setup_name, input, setup_args, flags) ==
    LET created == << Call("create_setup", <<setup_name>>),
                      Call("setup_update", <<setup_name>> \o setup_args) >>
                   \o (IF flags.pre_save_file THEN << Call("save_project", <<>>) >> ELSE <<>>)
    IN /\ setup_names' = [setup_names EXCEPT ![a] = Append(@, setup_name)]
       /\ backend_setups' = Append(backend_setups, setup_name)
       /\ IF StopsAfterBuild(flags)
          THEN /\ pc' = "exited"
               /\ analyzed' = analyzed
               /\ last' = DoneWith(a, op, setup_name, input, "exit", "none",
                               created \o << Call("release_desktop", <<>>) >>)
          ELSE /\ pc' = pc
               /\ analyzed' = (analyzed \/ SolvesNow(flags))
               /\ last' = DoneWith(a, op, setup_name, input, "ok", "none",
                               created
                               \o (IF SolvesNow(flags)
                                   THEN << Call("analyze", <<>>) >> ELSE <<>>)
                               \o (IF flags.save_simulation
                                   THEN << Call("save_project", <<>>) >> ELSE <<>>))
       /\ UNCHANGED <<session, backend_vars, backend_objects, backend_windings,
                      backend_sweeps, process>>

transient_analysis(a, kw, setup_name) ==
    /\ pc = "running"
    /\ IF kw THEN RaiseBy(a, "transient_analysis", setup_name, "TypeError")
       ELSE IF ~RegionAssigned THEN RaiseBy(a, "transient_analysis", setup_name, "ValueError")
       ELSE IF ~SolverIsTransient THEN RaiseBy(a, "transient_analysis", setup_name, "ValueError")
       ELSE IF SetupNameExisted(a, setup_name)
       THEN RaiseBy(a, "transient_analysis", setup_name, "ValueError")
       ELSE \E t \in TransientTimes :
              IF TimesRejected(t)
              \* the name was appended at line 1425, before the times are checked
              THEN /\ setup_names' = [setup_names EXCEPT ![a] = Append(@, setup_name)]
                   /\ last' = DoneWith(a, "transient_analysis", setup_name,
                                      [times |-> t], "error", "ValueError", <<>>)
                   /\ UNCHANGED <<session, backend, pc, process>>
              ELSE \E flags \in AnalysisFlags :
                     RunSetup("transient_analysis", a, setup_name,
                              [times |-> t, flags |-> flags],
                              <<t.stop_time, t.time_step, t.n_steps,
                                t.steps_from, t.steps_to>>, flags)
    /\ Bounded

ec_analysis(a, kw, setup_name) ==
    /\ pc = "running"
    /\ IF kw THEN RaiseBy(a, "ec_analysis", setup_name, "TypeError")
       ELSE IF ~RegionAssigned THEN RaiseBy(a, "ec_analysis", setup_name, "ValueError")
       ELSE IF ~SolverIsEddyCurrent THEN RaiseBy(a, "ec_analysis", setup_name, "ValueError")
       ELSE IF SetupNameExisted(a, setup_name)
       THEN RaiseBy(a, "ec_analysis", setup_name, "ValueError")
       ELSE \E frequency \in Numbers \cup NamedValues :
         IF frequency.t = "str" /\ ~VariableDeclared(frequency.v)
         THEN RaiseWith(a, "ec_analysis", setup_name, [frequency |-> frequency],
                        "ValueError", <<>>)
         \* Freq is bound for float and str only; it is read at line 1554, after
         \* the name was appended and create_setup was called
         ELSE IF frequency.t = "int"
         THEN /\ setup_names' = [setup_names EXCEPT ![a] = Append(@, setup_name)]
              /\ backend_setups' = Append(backend_setups, setup_name)
              /\ last' = DoneWith(a, "ec_analysis", setup_name,
                                 [frequency |-> frequency], "error", "UnboundLocalError",
                                 << Call("create_setup", <<setup_name>>) >>)
              /\ UNCHANGED <<session, backend_vars, backend_objects, backend_windings,
                             backend_sweeps, analyzed, pc, process>>
         ELSE \E flags \in AnalysisFlags :
                RunSetup("ec_analysis", a, setup_name,
                         [frequency |-> frequency, flags |-> flags],
                         << IF frequency.t = "str" THEN Reference(frequency.v)
                            ELSE Literal(frequency, "MHz") >>, flags)
    /\ Bounded

----------------------------------------------------------------------------
(* Analysis.optimetrics_setup *)

\* file_name: None, or a csv file whose header, after the first column, is `header`
SweepFiles ==
    { [given |-> FALSE, header |-> <<>>],
      [given |-> TRUE, header |-> <<>>],
      [given |-> TRUE, header |-> << <<"$", "h">> >>] }

SweepFlags == [pre_save_file : BOOLEAN, pre_stop : BOOLEAN, save_simulation : BOOLEAN]

\* self._setup_names == 0, self.sim_init._variable_names == 0: a list equals no int
ListEqualsZero(list) == FALSE

\* a Python value passed as variable_name: a str, or a dict of one item
StrValue(name) == [t |-> "str", v |-> name]
DictValue(name, value) == [t |-> "dict", v |-> [name |-> name, value |-> value]]

\* variable_name: the name of a variable, or a dict as the session keeps them
SweepVariables ==
    {StrValue(n) : n \in VarNames}
        \cup {DictValue("x", <<"0", "_", "mm">>), DictValue("h", <<"1", "_", "mm">>)}

\* dict == value: a dict equals a dict of the same items, and no str
DictEquals(dict, value) == value.t = "dict" /\ value.v = dict

\* variable_name in self.sim_init._variable_names, a list of dicts
InVariableList(value) ==
    \E i \in DOMAIN variable_names : DictEquals(variable_names[i], value)

\* variation[1:] in self.sim_init._variable_names, variation a column name
ColumnInVariableList(variation) == InVariableList(StrValue(Tail(variation)[1]))

\* f"${variable_name}"
SweepReference(value) ==
    IF value.t = "str" THEN <<"$", value.v>>
    ELSE <<"$", "{", value.v.name, ":">> \o value.v.value \o <<"}">>

\* the arguments of optimetrics_setup that select what it does
SweepArg(file, variable_name) == [file |-> file, variable_name |-> variable_name]

RaiseAfterBy(by, op, arg, err, calls) ==
    /\ last' = DoneBy(by, op, arg, "error", err, calls)
    /\ UNCHANGED <<session, setup_names, backend, pc, process>>

\* from the sweep's creation to the return: save, stop or solve, save
RunSweep(a, arg, calls, flags) ==
    LET created == calls \o << Call("sweep_update", <<"sweep">>) >>
                   \o (IF flags.pre_save_file THEN << Call("save_project", <<>>) >> ELSE <<>>)
    IN /\ backend_sweeps' = backend_sweeps + 1
       /\ IF flags.pre_stop
          THEN /\ pc' = "exited"
               /\ analyzed' = analyzed
               /\ last' = DoneBy(a, "optimetrics_setup", arg, "exit", "none",
                               created \o << Call("release_desktop", <<>>) >>)
          ELSE /\ pc' = pc
               /\ analyzed' = TRUE
               /\ last' = DoneBy(a, "optimetrics_setup", arg, "ok", "none",
                               created \o << Call("analyze", <<>>) >>
                               \o (IF flags.save_simulation
                                   THEN << Call("save_project", <<>>) >> ELSE <<>>))
       /\ UNCHANGED <<session, setup_names, backend_vars, backend_objects,
                      backend_setups, backend_windings, process>>

optimetrics_setup(a, kw, file, variable_name) ==
    LET moved == << Call("set_working_coordinate_system", <<"Global">>) >>
                 \o (IF specimen_name # <<>>
                     THEN << Call("move", <<specimen_name[1], "$x", "$y", "$z">>) >>
                     ELSE <<>>)
    IN
    /\ pc = "running"
    /\ IF kw THEN RaiseBy(a, "optimetrics_setup", SweepArg(file, variable_name), "TypeError")
       ELSE IF ~RegionAssigned THEN RaiseBy(a, "optimetrics_setup", SweepArg(file, variable_name), "ValueError")
       ELSE IF ListEqualsZero(setup_names[a])
       THEN RaiseBy(a, "optimetrics_setup", SweepArg(file, variable_name), "ValueError")
       ELSE IF ListEqualsZero(variable_names)
       THEN RaiseBy(a, "optimetrics_setup", SweepArg(file, variable_name), "ValueError")
       ELSE IF ~InVariableList(variable_name)
       THEN RaiseBy(a, "optimetrics_setup", SweepArg(file, variable_name), "ValueError")
       ELSE IF ~file.given
       THEN \* solution=self._setup_names[0]
            IF setup_names[a] = <<>>
            THEN RaiseAfterBy(a, "optimetrics_setup", SweepArg(file, variable_name),
                              "IndexError", moved)
            ELSE \E flags \in SweepFlags :
                   RunSweep(a, SweepArg(file, variable_name),
                            moved \o << Call("parametrics_add",
                                             <<SweepReference(variable_name),
                                               setup_names[a][1]>>) >>,
                            flags)
       ELSE IF \E i \in DOMAIN file.header : ~ColumnInVariableList(file.header[i])
       THEN RaiseAfterBy(a, "optimetrics_setup", SweepArg(file, variable_name),
                         "ValueError", moved)
       ELSE \E flags \in SweepFlags :
              RunSweep(a, SweepArg(file, variable_name),
                       moved \o << Call("parametrics_add_from_file", file.header) >>,
                       flags)
    /\ Bounded

----------------------------------------------------------------------------
(* Analysis.reload_analyze *)

\* **kwargs is accepted and never looked at
reload_analyze(a, kw) ==
    /\ pc = "running"
    /\ IF ~maxwell_3d
       THEN RaiseWith(a, "reload_analyze", <<>>, [kwargs |-> kw], "AttributeError", <<>>)
       ELSE /\ analyzed' = TRUE
            /\ last' = DoneWith(a, "reload_analyze", <<>>, [kwargs |-> kw], "ok", "none",
                               << Call("analyze", <<>>) >>)
            /\ UNCHANGED <<session, setup_names, backend_vars, backend_objects,
                           backend_setups, backend_windings, backend_sweeps, pc, process>>

----------------------------------------------------------------------------
(* GetResult.get_induced_voltage *)

\* coil_name: a str, a list of str, or a value of another type
CoilQueries ==
    {[t |-> "str", v |-> n] : n \in ObjectNames}
        \cup {[t |-> "list", v |-> l] : l \in {<<>>, <<E0>>, <<E0, E00>>, <<E00, E0>>}}
        \cup {[t |-> "other", v |-> <<>>]}

\* the check stops at the first name of the list
FirstCoilRegistered(names) == names = <<>> \/ InList(names[1], coil_names)

\* for coil in coil_name: coil in self.sim_init._coil_names
AllCoilsRegistered(names) == \A i \in DOMAIN names : InList(names[i], coil_names)

\* the expressions name the coil assignments instead of the windings
InducedVoltageOfCoilPaths(names) ==
    [i \in DOMAIN names |-> <<"mag(InducedVoltage(">> \o CoilPath(names[i]) \o <<"))">>]

\* f"mag(InducedVoltage({name}))" for each winding name
InducedVoltageExpressions(names) ==
    [i \in DOMAIN names |-> <<"mag(InducedVoltage(">> \o Winding(names[i]) \o <<"))">>]

\* f"{item}" of a one-entry dict of str: "{'x': '0_mm'}"
DictText(item) == <<"{'", item.name, "': '">> \o item.value \o <<"'}">>

\* {f"${item}": ["all"] for item in self.sim_init._variable_names}
Variations ==
    { [key |-> <<"$">> \o DictText(variable_names[i]), value |-> <<"all">>] :
        i \in DOMAIN variable_names }

get_induced_voltage(coil_name) ==
    /\ pc = "running"
    /\ LET names == IF coil_name.t = "str" THEN <<coil_name.v>> ELSE coil_name.v
       IN \* m3d.post of a session without a backend
          IF ~maxwell_3d
          THEN last' = Done("get_induced_voltage", coil_name, "error", "AttributeError", <<>>)
          ELSE IF coil_name.t = "other"
          THEN last' = Done("get_induced_voltage", coil_name, "error", "TypeError", <<>>)
          ELSE IF ~AllCoilsRegistered(names)
          THEN last' = Done("get_induced_voltage", coil_name, "error", "ValueError", <<>>)
          ELSE last' = Done("get_induced_voltage", coil_name, "ok", "none",
                            IF solution_type = "EddyCurrent"
                            THEN << Call("get_solution_data",
                                         <<"Freq", InducedVoltageExpressions(names)>>),
                                    Call("export_data_to_csv", <<>>) >>
                            ELSE IF solution_type = "Transient"
                            THEN << Call("get_solution_data",
                                         <<"Time", InducedVoltageExpressions(names),
                                           Variations>>),
                                    Call("export_data_to_csv", <<>>) >>
                            ELSE <<>>)
    /\ UNCHANGED <<session, setup_names, backend, pc, process>>

----------------------------------------------------------------------------
(* The sessions of a process and the objects bound to them.  A session is    *)
(* its index in SimulationInit._instances; of its state only the region     *)
(* list, the variable list and the coil registry are kept here.             *)

\* the sim_init argument of a constructor: 0 is None, else a session
SimInitArgs == {0} \cup DOMAIN instances

\* the binding takes the oldest session
FirstSimInit == CHOOSE s \in DOMAIN instances : \A t \in DOMAIN instances : s <= t

\* SimulationInit._instances[-1]
LatestSimInit == Len(instances)

\* SimulationInit(...): a new session is appended to the class-level list
new_SimulationInit ==
    /\ Len(instances) < MaxSessions
    /\ instances' = Append(instances, NewSession)
    /\ UNCHANGED <<session, setup_names, backend, pc, last, cleanup, bound, read>>

\* region_assign on session s: self._boundary.append("Region")
session_region_assign(s) ==
    /\ instances[s].boundary = <<>>
    /\ instances' = [instances EXCEPT ![s].boundary = Append(@, "Region")]
    /\ UNCHANGED <<session, setup_names, backend, pc, last, cleanup, bound, read>>

\* create_project_variable on session s: self._variable_names.append({name: ...})
session_create_variable(s, name) ==
    /\ Len(instances[s].variable_names) < 4
    /\ instances' = [instances EXCEPT ![s].variable_names =
                        Append(@, [name |-> name, value |-> <<"1", "_", "mm">>])]
    /\ UNCHANGED <<session, setup_names, backend, pc, last, cleanup, bound, read>>

\* a coil creator on session s: self._coil_names.append(name)
session_create_coil(s, name) ==
    /\ ~InList(name, instances[s].coil_names)
    /\ instances' = [instances EXCEPT ![s].coil_names = Append(@, name)]
    /\ UNCHANGED <<session, setup_names, backend, pc, last, cleanup, bound, read>>

\* class_name(sim_init): self.sim_init = sim_init or self._get_latest_sim_init();
\* `sessions` keeps how many sessions there were
Construct(class_name, sim_init) ==
    /\ Len(bound) < MaxBound
    /\ IF sim_init # 0
       THEN /\ bound' = Append(bound, [class |-> class_name, sim_init |-> sim_init,
                                       given |-> TRUE, sessions |-> Len(instances)])
            /\ read' = [by |-> 0, op |-> "__init__", outcome |-> "ok"]
       ELSE IF instances = <<>>
       THEN /\ read' = [by |-> 0, op |-> "__init__", outcome |-> "RuntimeError"]
            /\ UNCHANGED bound
       ELSE /\ bound' = Append(bound, [class |-> class_name, sim_init |-> LatestSimInit,
                                       given |-> FALSE, sessions |-> Len(instances)])
            /\ read' = [by |-> 0, op |-> "__init__", outcome |-> "ok"]
    /\ UNCHANGED <<session, setup_names, backend, pc, last, cleanup, instances>>

new_Analysis(sim_init) == Construct("Analysis", sim_init)

new_GetResult(sim_init) == Construct("GetResult", sim_init)

\* a method of object o reads self.sim_init._boundary, ._variable_names (the
\* analyses) or ._coil_names (get_induced_voltage)
read_through(o) ==
    /\ read' = [by |-> o, op |-> "read", outcome |-> "ok",
                boundary |-> instances[bound[o].sim_init].boundary,
                variable_names |-> instances[bound[o].sim_init].variable_names,
                coil_names |-> instances[bound[o].sim_init].coil_names]
    /\ UNCHANGED <<session, setup_names, backend, pc, last, cleanup, instances, bound>>

----------------------------------------------------------------------------
(* algorithm_loader.delete_simulation_files *)

\* max_retries as the caller passes it
RetryLimits == 0..MaxRetries

\* the .aedt files a project can leave under the working directory, in the
\* order os.walk yields them
Files == 1..MaxFiles

\* the files os.remove deletes before the first one whose removal raises
RemovedBeforeRaise == { f \in present : \A g \in locked : f < g }

\* the call starts: retries = 0, and the directory holds the files `p`, of
\* which those in `l` are held open
delete_simulation_files(m, p, l) ==
    /\ delete_pc \in {"idle", "returned"}
    /\ l \subseteq p
    /\ max_retries' = m
    /\ retries' = 0
    /\ present' = p
    /\ locked' = l
    /\ failed_attempts' = 0
    /\ delete_pc' = "while"
    /\ UNCHANGED <<session, setup_names, backend, pc, last, instances, bound, read>>

\* one pass of the try block: every file removed and break, or an exception
\* at the first file held open
delete_attempt ==
    /\ delete_pc = "while"
    /\ retries < max_retries
    /\ failed_attempts < MaxAttempts
    /\ IF locked = {}
       THEN /\ present' = {}
            /\ delete_pc' = "returned"
            /\ UNCHANGED failed_attempts
       ELSE /\ present' = present \ RemovedBeforeRaise
            /\ delete_pc' = "except"
            /\ failed_attempts' = failed_attempts + 1
    /\ UNCHANGED <<session, setup_names, backend, pc, last, instances, bound, read,
                   max_retries, retries, locked>>

\* the except block: Maxwell3d(...), close_project, close_desktop; this releases
\* some, all or none of the files, and retries stays as it is
delete_recover ==
    /\ delete_pc = "except"
    /\ \E released \in SUBSET locked : locked' = locked \ released
    /\ delete_pc' = "while"
    /\ UNCHANGED <<session, setup_names, backend, pc, last, instances, bound, read,
                   max_retries, retries, present, failed_attempts>>

\* the loop condition fails: return True
delete_return ==
    /\ delete_pc = "while"
    /\ ~(retries < max_retries)
    /\ delete_pc' = "returned"
    /\ UNCHANGED <<session, setup_names, backend, pc, last, instances, bound, read,
                   max_retries, retries, present, locked, failed_attempts>>

----------------------------------------------------------------------------
Next ==
    \/ simulation_init
    \/ \E kw \in BOOLEAN, name \in VarNames, value \in VarValues, unit \in VarUnits :
           create_project_variable(kw, name, value, unit)
    \/ \E kw \in BOOLEAN, name \in ObjectNames :
           create_rectangle_coil(kw, name, OneTurnShape)
    \/ \E kw \in BOOLEAN, name \in ObjectNames : create_spiral_coil(kw, name)
    \/ \E kw \in BOOLEAN, name \in ObjectNames : create_helmholtz_coils(kw, name)
    \/ \E kw \in BOOLEAN, name \in ObjectNames : create_circular_litz_coils(kw, name)
    \/ \E kw \in BOOLEAN, name \in ObjectNames : create_cylinder(kw, name)
    \/ \E kw \in BOOLEAN, name \in ObjectNames : create_box(kw, name)
    \/ \E kw \in BOOLEAN, name \in ObjectNames : create_specimen(kw, name)
    \/ \E kw \in BOOLEAN, name \in ObjectNames : specimen_with_crack(kw, name)
    \/ \E kw \in BOOLEAN, boundaries_size \in BoundarySizes :
           region_assign(kw, boundaries_size)

    \/ \E kw \in BOOLEAN, coil_name \in ObjectNames :
           transient_type_assign_excitation(kw, coil_name)
    \/ \E kw \in BOOLEAN, coil_name \in ObjectNames :
           ec_type_assign_excitation(kw, coil_name)
    \/ \E a \in AnalysisIds, kw \in BOOLEAN, setup_name \in SetupNames :
           transient_analysis(a, kw, setup_name)
    \/ \E a \in AnalysisIds, kw \in BOOLEAN, setup_name \in SetupNames :
           ec_analysis(a, kw, setup_name)
    \/ \E a \in AnalysisIds, kw \in BOOLEAN, file \in SweepFiles, variable_name \in SweepVariables :
           optimetrics_setup(a, kw, file, variable_name)
    \/ \E a \in AnalysisIds, kw \in BOOLEAN : reload_analyze(a, kw)
    \/ \E coil_name \in CoilQueries : get_induced_voltage(coil_name)
    \/ \E kw \in BOOLEAN, object_name \in MeshObjects, mesh_size \in MeshSizes :
           length_mesh(kw, object_name, mesh_size)
    \/ \E kw \in BOOLEAN, object_name \in MeshObjects : skin_depth_mesh(kw, object_name)
    \/ \E m \in RetryLimits, p \in SUBSET Files, l \in SUBSET Files :
           delete_simulation_files(m, p, l)
    \/ delete_attempt
    \/ delete_recover
    \/ delete_return
    \/ new_SimulationInit
    \/ \E s \in DOMAIN instances : session_region_assign(s)
    \/ \E s \in DOMAIN instances : session_create_variable(s, "h")
    \/ \E s \in DOMAIN instances : session_create_coil(s, E0)
    \/ \E sim_init \in SimInitArgs : new_Analysis(sim_init)
    \/ \E sim_init \in SimInitArgs : new_GetResult(sim_init)
    \/ \E o \in DOMAIN bound : read_through(o)

\* every method, in any order
Spec == Init /\ [][Next]_vars

\* the variable and registry operations of SimulationInit alone
NextRegistry ==
    \/ simulation_init
    \/ \E kw \in BOOLEAN, name \in ObjectNames :
           create_rectangle_coil(kw, name, OneTurnShape)
    \/ \E kw \in BOOLEAN, name \in ObjectNames : create_spiral_coil(kw, name)
    \/ \E kw \in BOOLEAN, name \in ObjectNames : create_helmholtz_coils(kw, name)
    \/ \E kw \in BOOLEAN, name \in ObjectNames : create_circular_litz_coils(kw, name)
    \/ \E kw \in BOOLEAN, name \in ObjectNames : create_cylinder(kw, name)
    \/ \E kw \in BOOLEAN, name \in ObjectNames : create_box(kw, name)
    \/ \E kw \in BOOLEAN, name \in ObjectNames : create_specimen(kw, name)
    \/ \E kw \in BOOLEAN, name \in ObjectNames : specimen_with_crack(kw, name)

SpecRegistry == Init /\ [][NextRegistry]_vars

\* the set-up of an analysis: variables, region, setups and sweeps
NextAnalysis ==
    \/ simulation_init
    \/ \E kw \in BOOLEAN, name \in VarNames, value \in VarValues, unit \in VarUnits :
           create_project_variable(kw, name, value, unit)
    \/ \E kw \in BOOLEAN, boundaries_size \in BoundarySizes :
           region_assign(kw, boundaries_size)
    \/ \E a \in AnalysisIds, kw \in BOOLEAN, setup_name \in SetupNames :
           transient_analysis(a, kw, setup_name)
    \/ \E a \in AnalysisIds, kw \in BOOLEAN, setup_name \in SetupNames :
           ec_analysis(a, kw, setup_name)
    \/ \E a \in AnalysisIds, kw \in BOOLEAN, file \in SweepFiles, variable_name \in SweepVariables :
           optimetrics_setup(a, kw, file, variable_name)

SpecAnalysis == Init /\ [][NextAnalysis]_vars

\* a coil, its excitation, a region and the analysis setups of both solver modes
NextMode ==
    \/ simulation_init
    \/ \E kw \in BOOLEAN, name \in ObjectNames : create_helmholtz_coils(kw, name)
    \/ \E kw \in BOOLEAN, boundaries_size \in BoundarySizes :
           region_assign(kw, boundaries_size)
    \/ \E kw \in BOOLEAN, coil_name \in ObjectNames :
           transient_type_assign_excitation(kw, coil_name)
    \/ \E kw \in BOOLEAN, coil_name \in ObjectNames :
           ec_type_assign_excitation(kw, coil_name)
    \/ \E kw \in BOOLEAN, setup_name \in SetupNames : transient_analysis(1, kw, setup_name)
    \/ \E kw \in BOOLEAN, setup_name \in SetupNames : ec_analysis(1, kw, setup_name)

SpecMode == Init /\ [][NextMode]_vars

\* an eddy-current study: variables, a coil, its excitation, a region, a setup
NextEddyCurrent ==
    \/ simulation_init
    \/ \E kw \in BOOLEAN, name \in VarNames, value \in VarValues, unit \in VarUnits :
           create_project_variable(kw, name, value, unit)
    \/ \E kw \in BOOLEAN, name \in {E0, UnderName} : create_spiral_coil(kw, name)
    \/ \E kw \in BOOLEAN, boundaries_size \in BoundarySizes :
           region_assign(kw, boundaries_size)
    \/ \E kw \in BOOLEAN, coil_name \in {E0, E00} :
           ec_type_assign_excitation(kw, coil_name)
    \/ \E kw \in BOOLEAN, setup_name \in {"MySetup"} : ec_analysis(1, kw, setup_name)

SpecEddyCurrent == Init /\ [][NextEddyCurrent]_vars

\* the coils of a session and the extraction of their induced voltages
NextResult ==
    \/ simulation_init
    \/ \E kw \in BOOLEAN, name \in ObjectNames : create_helmholtz_coils(kw, name)
    \/ \E kw \in BOOLEAN, name \in ObjectNames : create_circular_litz_coils(kw, name)
    \/ \E coil_name \in CoilQueries : get_induced_voltage(coil_name)

SpecResult == Init /\ [][NextResult]_vars

\* coils, the windings assigned to them, and the extraction of their voltages
NextWinding ==
    \/ simulation_init
    \/ \E kw \in BOOLEAN, name \in {E0, E00} : create_helmholtz_coils(kw, name)
    \/ \E kw \in BOOLEAN, coil_name \in {E0, E00} :
           transient_type_assign_excitation(kw, coil_name)
    \/ \E kw \in BOOLEAN, coil_name \in {E0, E00} :
           ec_type_assign_excitation(kw, coil_name)
    \/ \E coil_name \in CoilQueries : get_induced_voltage(coil_name)

SpecWinding == Init /\ [][NextWinding]_vars

\* declared project variables and the extraction that sweeps over them
NextVariations ==
    \/ simulation_init
    \/ \E kw \in BOOLEAN, name \in VarNames, value \in VarValues, unit \in VarUnits :
           create_project_variable(kw, name, value, unit)
    \/ \E kw \in BOOLEAN : create_helmholtz_coils(kw, E0)
    \/ \E coil_name \in CoilQueries : get_induced_voltage(coil_name)

SpecVariations == Init /\ [][NextVariations]_vars

\* a coil, a specimen and the mesh assignments on them
NextMesh ==
    \/ simulation_init
    \/ \E kw \in BOOLEAN : create_helmholtz_coils(kw, E0)
    \/ \E kw \in BOOLEAN : create_specimen(kw, E00)
    \/ \E kw \in BOOLEAN, object_name \in MeshObjects, mesh_size \in MeshSizes :
           length_mesh(kw, object_name, mesh_size)
    \/ \E kw \in BOOLEAN, object_name \in MeshObjects : skin_depth_mesh(kw, object_name)

SpecMesh == Init /\ [][NextMesh]_vars

\* every variable, geometry, excitation, mesh, crack and region method, before
\* and after simulation_init
NextSession ==
    \/ simulation_init
    \/ \E unit \in VarUnits : create_project_variable(FALSE, "h", "1", unit)
    \/ create_rectangle_coil(FALSE, E0, OneTurnShape)
    \/ create_spiral_coil(FALSE, E0)
    \/ create_helmholtz_coils(FALSE, E0)
    \/ create_circular_litz_coils(FALSE, E0)
    \/ create_cylinder(FALSE, E0)
    \/ create_box(FALSE, E0)
    \/ create_specimen(FALSE, E00)
    \/ specimen_with_crack(FALSE, E00)
    \/ \E object_name \in MeshObjects, mesh_size \in MeshSizes :
           length_mesh(FALSE, object_name, mesh_size)
    \/ \E object_name \in MeshObjects : skin_depth_mesh(FALSE, object_name)
    \/ \E boundaries_size \in BoundarySizes : region_assign(FALSE, boundaries_size)
    \/ transient_type_assign_excitation(FALSE, E0)
    \/ ec_type_assign_excitation(FALSE, E0)

SpecSession == Init /\ [][NextSession]_vars

\* rectangle coils of every shape
NextRectangle ==
    \/ simulation_init
    \/ \E kw \in BOOLEAN, name \in {E0, E00}, shape \in Shapes :
           create_rectangle_coil(kw, name, shape)

SpecRectangle == Init /\ [][NextRectangle]_vars

\* the process before any session exists
InitNoSession ==
    /\ InitCleanup
    /\ instances = <<>>
    /\ bound = <<>>
    /\ read = NoRead
    /\ solution_type = "Transient"
    /\ maxwell_3d = FALSE
    /\ coil_names = <<>>
    /\ cylinder_names = <<>>
    /\ box_names = <<>>
    /\ coil_for_assign = <<>>
    /\ crack_counter = 0
    /\ specimen_name = <<>>
    /\ boundary = <<>>
    /\ variable_names = BuiltinVariables
    /\ setup_names = [a \in AnalysisIds |-> <<>>]
    /\ backend_vars = <<>>
    /\ backend_objects = <<>>
    /\ backend_setups = <<>>
    /\ backend_windings = {}
    /\ backend_sweeps = 0
    /\ analyzed = FALSE
    /\ pc = "running"
    /\ last = Done("import", <<>>, "ok", "none", <<>>)

\* sessions, the objects bound to them, and what these objects read
NextInstances ==
    \/ new_SimulationInit
    \/ \E s \in DOMAIN instances : session_region_assign(s)
    \/ \E s \in DOMAIN instances : session_create_variable(s, "h")
    \/ \E s \in DOMAIN instances : session_create_coil(s, E0)
    \/ \E sim_init \in SimInitArgs : new_Analysis(sim_init)
    \/ \E sim_init \in SimInitArgs : new_GetResult(sim_init)
    \/ \E o \in DOMAIN bound : read_through(o)

SpecInstances == InitNoSession /\ [][NextInstances]_vars

\* the cleanup function on its own
NextDelete ==
    \/ \E m \in RetryLimits, p \in SUBSET Files, l \in SUBSET Files :
           delete_simulation_files(m, p, l)
    \/ delete_attempt
    \/ delete_recover
    \/ delete_return

SpecDelete == Init /\ [][NextDelete]_vars

\* methods of both classes called with and without an unknown keyword
NextKeywords ==
    \/ simulation_init
    \/ \E kw \in BOOLEAN, name \in VarNames, value \in VarValues, unit \in VarUnits :
           create_project_variable(kw, name, value, unit)
    \/ \E kw \in BOOLEAN, name \in ObjectNames : create_box(kw, name)
    \/ \E kw \in BOOLEAN, boundaries_size \in BoundarySizes :
           region_assign(kw, boundaries_size)
    \/ \E kw \in BOOLEAN, setup_name \in {"MySetup"} : ec_analysis(1, kw, setup_name)
    \/ \E kw \in BOOLEAN : reload_analyze(1, kw)

SpecKeywords == Init /\ [][NextKeywords]_vars

----------------------------------------------------------------------------
(* The claims. *)

CoilCreators ==
    {"create_rectangle_coil", "create_spiral_coil", "create_helmholtz_coils",
     "create_circular_litz_coils"}
SetupMethods == {"transient_analysis", "ec_analysis"}
RegistryMethods ==
    CoilCreators \cup {"create_cylinder", "create_box", "create_specimen",
                       "specimen_with_crack", "create_project_variable", "region_assign"}

\* the last call raised an error and issued no backend call
Rejected == last.outcome = "error" /\ last.calls = <<>>

\* the backend calls of the last method call named f
LastCalls(f) == CallsOf(last.calls, f)

\* C1: no variable name occurs more than once in the session's variable
\* mapping (a call with a declared name, x, y and z included, fails).
C1_VariableNamesUnique ==
    \A i, j \in DOMAIN variable_names :
        variable_names[i].name = variable_names[j].name => i = j

\* C2: a call of any of the four coil creators with a name that is already in
\* the coil registry fails, issues no backend call and leaves the coil
\* registry and the backend's objects as they were.
C2_RegisteredCoilNameRejected ==
    [][ (last'.op \in CoilCreators /\ InList(last'.arg, coil_names))
          => /\ last'.outcome = "error"
             /\ last'.calls = <<>>
             /\ coil_names' = coil_names
             /\ coil_for_assign' = coil_for_assign
             /\ backend_objects' = backend_objects ]_vars

\* a creator was called with a registered name and raised its ValueError
C2_Witness ==
    /\ last.op \in CoilCreators
    /\ InList(last.arg, coil_names)
    /\ last.outcome = "error"
    /\ last.err = "ValueError"
    /\ last.calls = <<>>
    /\ Len(coil_for_assign) = Len(coil_names)

\* C3: the backend holds no analysis setup while no region_assign has
\* succeeded, and a setup call made in such a state fails without a backend
\* call.
C3_NoSetupBeforeRegion ==
    /\ boundary = <<>> => backend_setups = <<>>
    /\ (last.op \in SetupMethods /\ boundary = <<>>) => Rejected

\* ec_analysis, otherwise valid, was refused for the missing region
C3_Witness ==
    /\ last.op = "ec_analysis"
    /\ solution_type = "EddyCurrent"
    /\ maxwell_3d
    /\ boundary = <<>>
    /\ last.outcome = "error"
    /\ last.err = "ValueError"

\* C4: in a Transient session ec_type_assign_excitation and ec_analysis fail,
\* in an EddyCurrent session transient_type_assign_excitation and
\* transient_analysis fail, and the failing call issues no backend call.
C4_WrongModeRejected ==
    /\ (solution_type = "Transient"
        /\ last.op \in {"ec_type_assign_excitation", "ec_analysis"}) => Rejected
    /\ (solution_type = "EddyCurrent"
        /\ last.op \in {"transient_type_assign_excitation", "transient_analysis"})
         => Rejected
    /\ (last.op \in {"ec_type_assign_excitation", "ec_analysis"}
        /\ last.outcome # "error") => solution_type = "EddyCurrent"
    /\ (last.op \in {"transient_type_assign_excitation", "transient_analysis"}
        /\ last.outcome # "error") => solution_type = "Transient"

\* in a Transient session with a region, ec_type_assign_excitation on a
\* registered coil was refused for the mode
C4_Witness ==
    /\ solution_type = "Transient"
    /\ last.op = "ec_type_assign_excitation"
    /\ InList(last.arg, coil_names)
    /\ boundary # <<>>
    /\ last.outcome = "error"
    /\ last.err = "ValueError"

\* C5: a transient_analysis or ec_analysis call that raises an error leaves
\* the recorded setup names of every Analysis object unchanged.
C5_FailedSetupLeavesNames ==
    [][ (last'.op \in SetupMethods /\ last'.outcome = "error")
          => setup_names' = setup_names ]_vars

\* C6: a SimulationInit operation that raises an error leaves the coil,
\* cylinder, box, specimen and variable registries, the section lists, the
\* crack counter and the region flag as they were.
C6_FailedCallLeavesRegistries ==
    [][ (last'.op \in RegistryMethods /\ last'.outcome = "error")
          => UNCHANGED <<coil_names, cylinder_names, box_names, specimen_name,
                         variable_names, coil_for_assign, crack_counter,
                         boundary>> ]_vars

\* C7: an operation that raised one of the layer's own validation errors
\* (TypeError and ValueError are raised by the layer alone) had issued no
\* backend call.
C7_ValidationErrorBeforeBackend ==
    (last.outcome = "error" /\ last.err \in {"TypeError", "ValueError"})
        => last.calls = <<>>

\* C8: no two analysis setups created in the backend have the same name.
C8_BackendSetupNamesUnique ==
    \A i, j \in DOMAIN backend_setups :
        backend_setups[i] = backend_setups[j] => i = j

\* C9: with a region assigned, a setup recorded on the Analysis object and
\* variable_name a declared project variable, optimetrics_setup in range form
\* adds a parametric sweep of that variable and then either analyses and
\* returns True or releases the backend and exits without analysing.
C9_RangeSweepRuns ==
    ( /\ last.op = "optimetrics_setup"
      /\ last.err # "TypeError"
      /\ ~last.arg.file.given
      /\ last.arg.variable_name.t = "str"
      /\ VariableDeclared(last.arg.variable_name.v)
      /\ boundary # <<>>
      /\ setup_names[last.by] # <<>> )
    => /\ last.outcome \in {"ok", "exit"}
       /\ Len(LastCalls("parametrics_add")) = 1
       /\ last.outcome = "ok" => Len(LastCalls("analyze")) = 1
       /\ last.outcome = "exit" => /\ LastCalls("analyze") = <<>>
                                   /\ Len(LastCalls("release_desktop")) = 1

\* C10: optimetrics_setup adds a parametric sweep only when the Analysis
\* object has recorded a setup and a project variable is declared; called
\* with no setup recorded it fails and adds no sweep.
C10_SweepNeedsSetupAndVariable ==
    last.op = "optimetrics_setup"
        => /\ (LastCalls("parametrics_add") # <<>>
                \/ LastCalls("parametrics_add_from_file") # <<>>)
                 => (setup_names[last.by] # <<>> /\ variable_names # <<>>)
           /\ setup_names[last.by] = <<>> => last.outcome = "error"

\* the last call was of method op and got as far as reading its further arguments
ReadInput(op) == last.op = op /\ last.input # NoInput

\* C11: in EddyCurrent mode, ec_type_assign_excitation on a registered coil
\* with a numeric amplitude and a numeric phase, int or float, assigns the
\* winding with amplitude '<value> V' (Voltage) or '<value> A' (Current) and
\* phase '<value> deg', and returns True.
C11_NumericExcitationAssigned ==
    ( /\ ReadInput("ec_type_assign_excitation")
      /\ solution_type = "EddyCurrent"
      /\ InList(last.arg, coil_names)
      /\ last.input.excitation_type \in {"Voltage", "Current"}
      /\ last.input.amplitude.t \in {"int", "float"}
      /\ last.input.phase.t \in {"int", "float"} )
    => /\ last.outcome = "ok"
       /\ LastCalls("assign_winding") =
            << Call("assign_winding",
                    << last.arg \o <<"_", "for_winding">>,
                       last.input.excitation_type,
                       << last.input.amplitude.v, " ",
                          IF last.input.excitation_type = "Voltage" THEN "V" ELSE "A" >>,
                       << last.input.phase.v, " ", "deg" >> >>) >>

\* C12: in EddyCurrent mode with a region assigned and a setup name not yet
\* used, ec_analysis with a numeric frequency, int or float, creates the setup
\* with frequency '<value> MHz' and does not fail.
C12_NumericFrequencySetup ==
    ( /\ ReadInput("ec_analysis")
      /\ last.input.frequency.t \in {"int", "float"} )
    => /\ last.outcome # "error"
       /\ CallsOf(last.calls, "setup_update") =
            << Call("setup_update",
                    << last.arg, << last.input.frequency.v, " ", "MHz" >> >>) >>

\* name is a key of one of the dicts of the session's variable mapping
IsDeclared(name) == \E i \in DOMAIN variable_names : variable_names[i].name = name

\* a numeric value of a type the string building handles, or a declared name
Usable(value) == value.t = "float" \/ (value.t = "str" /\ IsDeclared(value.v))

ExcitationMethods == {"transient_type_assign_excitation", "ec_type_assign_excitation"}

C15_UnknownCoilNoRequest ==
    ( /\ last.op = "get_induced_voltage"
      /\ \/ last.arg.t = "str" /\ ~InList(last.arg.v, coil_names)
         \/ /\ last.arg.t = "list"
            /\ \E i \in DOMAIN last.arg.v : ~InList(last.arg.v[i], coil_names) )
    => /\ last.outcome = "error"
       /\ LastCalls("get_solution_data") = <<>>
       /\ LastCalls("export_data_to_csv") = <<>>

\* with e0 registered and e00 not, the request for the list [e0, e00] was
\* refused
C15_Witness ==
    /\ last.op = "get_induced_voltage"
    /\ maxwell_3d
    /\ last.arg = [t |-> "list", v |-> <<E0, E00>>]
    /\ InList(E0, coil_names)
    /\ ~InList(E00, coil_names)
    /\ last.outcome = "error"
    /\ last.err = "ValueError"

\* the last call was a setup method that passed its validation
SetupPassed ==
    /\ last.op \in SetupMethods
    /\ last.input # NoInput
    /\ "flags" \in DOMAIN last.input

\* what a build-only setup call leaves behind
StoppedAfterBuild ==
    (SetupPassed /\ last.input.flags.pre_stop)
    => /\ last.outcome = "exit"
       /\ pc = "exited"
       /\ Len(LastCalls("create_setup")) = 1
       /\ Len(LastCalls("save_project")) = (IF last.input.flags.pre_save_file THEN 1 ELSE 0)
       /\ Len(LastCalls("release_desktop")) = 1
       /\ last.calls[Len(last.calls)].f = "release_desktop"
       /\ LastCalls("analyze") = <<>>

ExtraVariableDeclared ==
    \E i \in DOMAIN variable_names : variable_names[i].name \notin {"x", "y", "z"}

\* C17: a transient_analysis or ec_analysis call with pre_stop false that
\* passes validation invokes the backend analysis exactly once if no project
\* variable beyond the built-in x, y, z has been declared or sole_solve is
\* true, and not at all if extra variables exist and sole_solve is false; in
\* both cases it returns True.
C17_SolveOrWaitForSweep ==
    (SetupPassed /\ ~last.input.flags.pre_stop)
    => /\ last.outcome = "ok"
       /\ pc = "running"
       /\ Len(LastCalls("analyze")) =
            (IF ~ExtraVariableDeclared \/ last.input.flags.sole_solve THEN 1 ELSE 0)

\* stop_time > time_step > 0, n_steps > 0 and 0 <= steps_from < steps_to
TimesValid(t) ==
    /\ t.stop_time > t.time_step
    /\ t.time_step > 0
    /\ t.n_steps > 0
    /\ 0 <= t.steps_from
    /\ t.steps_from < t.steps_to

\* C18: transient_analysis creates a backend setup only when stop_time >
\* time_step > 0, n_steps > 0 and 0 <= steps_from < steps_to; a call that
\* violates one of them fails and creates no backend setup.
C18_TransientTimesChecked ==
    [][ (last'.op = "transient_analysis" /\ last'.input # NoInput)
          => IF TimesValid(last'.input.times)
             THEN last'.outcome # "error"
             ELSE /\ last'.outcome = "error"
                  /\ last'.calls = <<>>
                  /\ backend_setups' = backend_setups ]_vars

\* a call with stop_time = 1 and time_step = 1, valid otherwise, was refused
C18_Witness ==
    /\ last.op = "transient_analysis"
    /\ solution_type = "Transient"
    /\ boundary # <<>>
    /\ last.input # NoInput
    /\ last.input.times.stop_time = 1
    /\ last.input.times.time_step = 1
    /\ last.outcome = "error"
    /\ last.err = "ValueError"
    /\ last.calls = <<>>

\* C19: an operation of SimulationInit or Analysis that receives an unknown
\* keyword argument fails with a TypeError before any backend call and before
\* any state is changed.
C19_UnknownKeywordRejected ==
    [][ /\ (last'.op = "reload_analyze" /\ last'.input.kwargs)
           => /\ last'.outcome = "error"
              /\ last'.err = "TypeError"
        /\ last'.err = "TypeError"
           => /\ last'.outcome = "error"
              /\ last'.calls = <<>>
              /\ UNCHANGED <<session, setup_names, backend, pc>> ]_vars

\* C20: in an initialized session every region_assign call with valid
\* arguments succeeds, however many calls went before, and once a call has
\* succeeded the region-assigned condition holds in every later state.
C20_RegionAssignRepeatable ==
    [][ /\ ( /\ last'.op = "region_assign"
             /\ maxwell_3d
             /\ last'.arg \in {"number", "list6"}
             /\ last'.err # "TypeError" )
           => /\ last'.outcome = "ok"
              /\ InList("Region", boundary')
              /\ Len(CallsOf(last'.calls, "create_air_region")) = 1
        /\ InList("Region", boundary) => InList("Region", boundary') ]_vars

\* a second region_assign call, with a list of six sizes, has succeeded
C20_Witness ==
    /\ last.op = "region_assign"
    /\ last.arg = "list6"
    /\ last.outcome = "ok"
    /\ Len(boundary) = 2

\* C21: specimen_with_crack on a specimen that is not registered fails and
\* leaves the crack counter unchanged; a successful call names the crack
\* '<specimen>_crack_<n>' with n one greater than the counter and adds exactly
\* one to the counter, and no other step changes the counter, so no two
\* cracks of a session share a name.
C21_CrackNumbering ==
    [][ /\ crack_counter' \in {crack_counter, crack_counter + 1}
        /\ crack_counter' # crack_counter
             => (last'.op = "specimen_with_crack" /\ last'.outcome = "ok")
        /\ (last'.op = "specimen_with_crack" /\ ~InList(last'.arg, specimen_name))
             => /\ last'.outcome = "error"
                /\ last'.calls = <<>>
                /\ crack_counter' = crack_counter
        /\ (last'.op = "specimen_with_crack" /\ last'.outcome = "ok")
             => /\ crack_counter' = crack_counter + 1
                /\ CallsOf(last'.calls, "create_box") =
                     << Call("create_box",
                             << last'.arg
                                \o <<"_", "crack", "_", ToString(crack_counter + 1)>> >>) >>
      ]_vars

\* the second crack of a session was cut into a registered specimen
C21_Witness ==
    /\ last.op = "specimen_with_crack"
    /\ last.outcome = "ok"
    /\ InList(last.arg, specimen_name)
    /\ crack_counter = 2

\* C22: create_rectangle_coil with step_size <= wire_width and
\* create_spiral_coil with spacing <= wire_width fail, register no coil name
\* and create no geometry in the backend.
C22_PitchMustExceedWireWidth ==
    [][ ( /\ last'.op \in {"create_rectangle_coil", "create_spiral_coil"}
          /\ last'.input # NoInput
          /\ last'.input.pitch <= last'.input.wire_width )
        => /\ last'.outcome = "error"
           /\ last'.err = "ValueError"
           /\ last'.calls = <<>>
           /\ coil_names' = coil_names
           /\ coil_for_assign' = coil_for_assign
           /\ backend_objects' = backend_objects ]_vars

\* in an initialized session, a spiral coil of a new name whose spacing equals
\* its wire width was refused
C22_Witness ==
    /\ last.op = "create_spiral_coil"
    /\ maxwell_3d
    /\ ~InList(last.arg, coil_names)
    /\ last.input # NoInput
    /\ last.input.pitch = last.input.wire_width
    /\ last.outcome = "error"
    /\ last.err = "ValueError"

\* C23: no name in the coil registry contains the separator '_': each of the
\* four coil creators rejects such a name before registering it and before
\* any backend call.
C23_NoSeparatorInCoilNames ==
    /\ \A i \in DOMAIN coil_names : \A k \in DOMAIN coil_names[i] : coil_names[i][k] # "_"
    /\ (last.op \in CoilCreators /\ \E k \in DOMAIN last.arg : last.arg[k] = "_")
         => /\ last.outcome = "error"
            /\ last.calls = <<>>

\* in an initialized session the litz creator refused the name r_1
C23_Witness ==
    /\ last.op = "create_circular_litz_coils"
    /\ maxwell_3d
    /\ last.arg = UnderName
    /\ last.outcome = "error"
    /\ last.err = "ValueError"
    /\ last.calls = <<>>

\* the names of a registry, as a set
Names(registry) == {registry[i] : i \in DOMAIN registry}

\* C24: the coil, cylinder, box and specimen name sets of a session are
\* pairwise disjoint.
C24_RegistriesDisjoint ==
    /\ Names(coil_names) \cap Names(cylinder_names) = {}
    /\ Names(coil_names) \cap Names(box_names) = {}
    /\ Names(coil_names) \cap Names(specimen_name) = {}
    /\ Names(cylinder_names) \cap Names(box_names) = {}
    /\ Names(cylinder_names) \cap Names(specimen_name) = {}
    /\ Names(box_names) \cap Names(specimen_name) = {}

\* C25: the backend analysis is never invoked, by transient_analysis,
\* ec_analysis, optimetrics_setup or reload_analyze, while no region is
\* assigned or no analysis setup has been created in the session.
C25_AnalyzeNeedsRegionAndSetup ==
    LastCalls("analyze") # <<>>
        => /\ InList("Region", boundary)
           /\ backend_setups # <<>>

\* C26: get_induced_voltage issues its solution-data request only in a state
\* where a backend analysis of the session has been run; called before any
\* analysis it fails without querying the backend.
C26_ResultsNeedAnalysis ==
    last.op = "get_induced_voltage"
        => /\ LastCalls("get_solution_data") # <<>> => analyzed
           /\ ~analyzed => last.outcome = "error"

\* the coil names a get_induced_voltage call was given, as a sequence
QueriedCoils == IF last.arg.t = "str" THEN <<last.arg.v>> ELSE last.arg.v

\* C27: every winding name that get_induced_voltage sends to the backend in
\* an expression was created earlier in the session by a successful
\* excitation assignment on that coil.
C27_RequestedWindingsExist ==
    (last.op = "get_induced_voltage" /\ LastCalls("get_solution_data") # <<>>)
        => \A i \in DOMAIN QueriedCoils :
              (QueriedCoils[i] \o <<"_", "for_winding">>) \in backend_windings

\* C28: for registered coil names given as a str or a list,
\* get_induced_voltage requests exactly the expressions
\* 'mag(InducedVoltage(<coil>_for_winding))', one per coil in the given order,
\* and '<coil>_for_winding' is the winding name both excitation methods
\* assign for the coil.
C28_ExpressionsNameTheWindings ==
    /\ ( /\ last.op = "get_induced_voltage"
         /\ maxwell_3d
         /\ last.arg.t \in {"str", "list"}
         /\ \A i \in DOMAIN QueriedCoils : InList(QueriedCoils[i], coil_names) )
       => /\ last.outcome = "ok"
          /\ Len(LastCalls("get_solution_data")) = 1
          /\ LastCalls("get_solution_data")[1].args[2] =
               [i \in DOMAIN QueriedCoils |->
                  <<"mag(InducedVoltage(">>
                  \o QueriedCoils[i] \o <<"_", "for_winding">> \o <<"))">>]
    /\ (last.op \in ExcitationMethods /\ LastCalls("assign_winding") # <<>>)
       => /\ LastCalls("assign_winding")[1].args[1] = last.arg \o <<"_", "for_winding">>
          /\ (last.arg \o <<"_", "for_winding">>) \in backend_windings

\* with windings assigned to e0 and e00, the voltages of [e00, e0] were
\* requested
C28_Witness ==
    /\ last.op = "get_induced_voltage"
    /\ last.arg = [t |-> "list", v |-> <<E00, E0>>]
    /\ last.outcome = "ok"
    /\ backend_windings = {E0 \o <<"_", "for_winding">>, E00 \o <<"_", "for_winding">>}
    /\ LastCalls("get_solution_data") # <<>>

\* C29: in Transient mode get_induced_voltage requests the solution data
\* over Time with a variations context that has exactly one entry per declared
\* project variable, keyed '$<variable name>' with value 'all'; in EddyCurrent
\* mode it requests the data over Freq with no variations context.
C29_VariationsPerVariable ==
    (last.op = "get_induced_voltage" /\ last.outcome = "ok")
        => /\ Len(LastCalls("get_solution_data")) = 1
           /\ LET args == LastCalls("get_solution_data")[1].args
              IN IF solution_type = "Transient"
                 THEN /\ args[1] = "Time"
                      /\ Len(args) = 3
                      /\ args[3] = { [key |-> <<"$", variable_names[i].name>>,
                                      value |-> <<"all">>] :
                                      i \in DOMAIN variable_names }
                 ELSE /\ args[1] = "Freq"
                      /\ Len(args) = 2

\* the names a mesh call was given
MeshedObjects == IF last.arg.t = "str" THEN <<last.arg.v>> ELSE last.arg.v

\* the argument shapes the mesh methods accept
AcceptedMeshShape ==
    \/ /\ last.op = "length_mesh"
       /\ last.input.read
       /\ \/ last.arg.t = "str" /\ last.input.mesh_size.t = "number"
          \/ last.arg.t = "list" /\ last.input.mesh_size.t \in {"list", "number"}
    \/ /\ last.op = "skin_depth_mesh"
       /\ last.arg.t = "list"
       /\ last.err # "TypeError"

\* C30: length_mesh and skin_depth_mesh issue a backend mesh assignment only
\* when every named object is a registered coil or specimen, for every
\* accepted argument shape (one name with one size, a list of names with a
\* list of sizes, a list of names with one size); otherwise they fail with a
\* not-found error before any mesh call.  Stated for initialised sessions.
C30_MeshOnlyRegisteredObjects ==
    (maxwell_3d /\ AcceptedMeshShape)
        => IF \A i \in DOMAIN MeshedObjects :
                  InList(MeshedObjects[i], coil_names)
                  \/ InList(MeshedObjects[i], specimen_name)
           THEN TRUE
           ELSE /\ last.outcome = "error"
                /\ last.err = "ValueError"
                /\ last.calls = <<>>

\* C31: delete_simulation_files terminates after at most max_retries failed
\* deletion attempts, even when every deletion attempt raises an error.
C31_BoundedRetries == failed_attempts <= max_retries

\* the flat set of all declared variable names, built-ins included
DeclaredNames == { variable_names[i].name : i \in DOMAIN variable_names }

\* C32: each variable-existence check of the code returns the same answer as
\* membership of the name in a flat set of all declared variable names,
\* built-ins x, y, z included.  Stated for the duplicate check of
\* create_project_variable on an initialised session, which is the only check
\* that can reject such a call once its keywords are accepted: the call is
\* rejected exactly when the name is in the flat set.
C32_ChecksAreFlatMembership ==
    [][ ( /\ last'.op = "create_project_variable"
          /\ last'.err # "TypeError"
          /\ maxwell_3d )
        => ((last'.outcome = "error") <=> (last'.arg \in DeclaredNames)) ]_vars

BuiltPath == LastCalls("create_polyline")[1].args[2]

\* create_rectangle_coil built a coil
RectangleBuilt == last.op = "create_rectangle_coil" /\ last.outcome = "ok"

Abs(n) == IF n < 0 THEN -n ELSE n
Min(a, b) == IF a <= b THEN a ELSE b
Max(a, b) == IF a <= b THEN b ELSE a

\* the length of segment k of a path of axis-parallel segments
SegmentLength(path, k) ==
    Abs(path[k + 1][1] - path[k][1]) + Abs(path[k + 1][2] - path[k][2])

\* the points segments i and j of the path have in common, as the ranges of
\* their coordinates: [lo, hi] in x and in y, empty when lo > hi
Common(path, i, j) ==
    [xlo |-> Max(Min(path[i][1], path[i + 1][1]), Min(path[j][1], path[j + 1][1])),
     xhi |-> Min(Max(path[i][1], path[i + 1][1]), Max(path[j][1], path[j + 1][1])),
     ylo |-> Max(Min(path[i][2], path[i + 1][2]), Min(path[j][2], path[j + 1][2])),
     yhi |-> Min(Max(path[i][2], path[i + 1][2]), Max(path[j][2], path[j + 1][2]))]

\* segments that follow each other share their joint and nothing else, all
\* other pairs of segments share no point
NoOverlap(path) ==
    \A i, j \in 1..(Len(path) - 1) :
        i < j => LET c == Common(path, i, j)
                 IN IF j = i + 1
                    THEN c.xlo = c.xhi /\ c.ylo = c.yhi
                    ELSE c.xlo > c.xhi \/ c.ylo > c.yhi

\* C34 as stated: for num_turns >= 1 and step_size > wire_width the polyline
\* built by create_rectangle_coil has exactly 4*num_turns + 1 segments, the
\* lengths of successive spiral segments strictly grow, and no two segments
\* overlap.
C34_Original ==
    RectangleBuilt
        => /\ Len(BuiltPath) - 1 = 4 * last.input.shape.num_turns + 1
           /\ \A k \in 1..(4 * last.input.shape.num_turns - 1) :
                 SegmentLength(BuiltPath, k) < SegmentLength(BuiltPath, k + 1)
           /\ NoOverlap(BuiltPath)

\* C34, corrected: for num_turns >= 1, step_size > wire_width and positive
\* initial lengths the polyline built by create_rectangle_coil has exactly
\* 4*num_turns + 1 segments (four per turn plus one closing segment); the
\* first two spiral segments have the initial x and y lengths, every later
\* spiral segment is one step_size longer than the segment two before it (the
\* previous one of its direction), and no two segments overlap.
C34_SpiralGrowsPerDirection ==
    RectangleBuilt
        => /\ Len(BuiltPath) - 1 = 4 * last.input.shape.num_turns + 1
           /\ SegmentLength(BuiltPath, 1) = last.input.shape.initial_x_length
           /\ SegmentLength(BuiltPath, 2) = last.input.shape.initial_y_length
           /\ \A k \in 1..(4 * last.input.shape.num_turns - 2) :
                 SegmentLength(BuiltPath, k + 2)
                   = SegmentLength(BuiltPath, k) + last.input.pitch
           /\ NoOverlap(BuiltPath)

\* a coil of two turns whose initial lengths are equal was built
C34_Witness ==
    /\ RectangleBuilt
    /\ last.input.shape.num_turns = 2
    /\ last.input.shape.initial_x_length = last.input.shape.initial_y_length
    /\ Len(BuiltPath) = 10

\* C35: region_assign attaches a radiation boundary condition to the created
\* region exactly when the session's solver mode is EddyCurrent; in Transient
\* mode it assigns no boundary condition; in both modes it sets the
\* region-assigned condition.
C35_RadiationOnlyInEddyCurrent ==
    (last.op = "region_assign" /\ last.outcome = "ok")
        => /\ solution_type = "EddyCurrent"
                => last.calls = << Call("create_air_region", <<last.arg>>),
                                   Call("assign_radiation", <<"Region">>) >>
           /\ solution_type = "Transient"
                => last.calls = << Call("create_air_region", <<last.arg>>) >>
           /\ Len(boundary) >= 1

\* a region was assigned in a Transient session
C35_Witness ==
    /\ last.op = "region_assign"
    /\ last.outcome = "ok"
    /\ solution_type = "Transient"
    /\ boundary = <<"Region">>

\* C36: an Analysis or GetResult object constructed without an explicit
\* session binds to the most recently constructed SimulationInit of the
\* process, and construction fails with an error when no SimulationInit
\* exists; with two sessions A then B, operations through such an object
\* read B's region flag, variables and coil registry, never A's.
C36_BindsToLatestSession ==
    [][ /\ \A o \in DOMAIN bound' :
              (o \notin DOMAIN bound /\ ~bound'[o].given)
                  => bound'[o].sim_init = Len(instances)
        /\ instances = <<>>
              => /\ bound' = bound
                 /\ read' # read => read'.outcome = "RuntimeError"
        /\ (read'.by # 0 /\ read' # read /\ Len(instances) = 2)
              => ((~bound[read'.by].given /\ bound[read'.by].sessions = 2)
                    => /\ read'.boundary = instances[2].boundary
                       /\ read'.variable_names = instances[2].variable_names
                       /\ read'.coil_names = instances[2].coil_names)
      ]_vars

\* with sessions A then B whose registries all differ, an object constructed
\* without a session has read B's
C36_Witness ==
    /\ Len(instances) = 2
    /\ instances[1].boundary # instances[2].boundary
    /\ instances[1].variable_names # instances[2].variable_names
    /\ instances[1].coil_names # instances[2].coil_names
    /\ read.by # 0
    /\ ~bound[read.by].given
    /\ bound[read.by].sessions = 2
    /\ read.boundary = instances[2].boundary
    /\ read.variable_names = instances[2].variable_names
    /\ read.coil_names = instances[2].coil_names

\* the excitation and analysis methods of each solver mode
TransientMethods == {"transient_type_assign_excitation", "transient_analysis"}
EddyCurrentMethods == {"ec_type_assign_excitation", "ec_analysis"}

\* C37: no operation changes a session's solver mode after construction, so
\* over the whole life of a session all successful excitation assignments and
\* analysis setups are of one single mode: every step leaves the mode as it
\* is, a Transient method succeeds only in Transient mode and an EddyCurrent
\* method only in EddyCurrent mode.
C37_OneModePerSession ==
    [][ /\ solution_type' = solution_type
        /\ (last'.op \in TransientMethods /\ last'.outcome \in {"ok", "exit"})
              => solution_type = "Transient"
        /\ (last'.op \in EddyCurrentMethods /\ last'.outcome \in {"ok", "exit"})
              => solution_type = "EddyCurrent"
      ]_vars

\* an EddyCurrent session whose coil was excited has set up its analysis
C37_Witness ==
    /\ solution_type = "EddyCurrent"
    /\ backend_windings # {}
    /\ last.op = "ec_analysis"
    /\ last.outcome = "ok"
    /\ backend_setups # <<>>

\* C38: for every registered coil whose sectioning produced at least one
\* section object, the section list recorded for it contains only section
\* objects cut from that coil, and the excitation lookup by coil name selects
\* at least one object and only objects of that coil, even when one coil's
\* name is a substring of another coil's name.
C38_SectionsBelongToTheirCoil ==
    \A i \in DOMAIN coil_for_assign :
        (i \in DOMAIN coil_names /\ coil_for_assign[i] # <<>>)
            => /\ \A k \in DOMAIN coil_for_assign[i] :
                     SplitFirst(coil_for_assign[i][k]) = coil_names[i]
               /\ TargetObjects(coil_names[i]) # <<>>
               /\ \A k \in DOMAIN TargetObjects(coil_names[i]) :
                     SplitFirst(TargetObjects(coil_names[i])[k]) = coil_names[i]

\* C39: whenever transient_type_assign_excitation or
\* ec_type_assign_excitation returns True, a winding named
\* '<coil>_for_winding' was assigned in the backend during that call before
\* it was bound to the coil-current path '<coil>_for_coil', for every value of
\* excitation_type the caller can pass.
C39_WindingAssignedBeforeBound ==
    (last.op \in ExcitationMethods /\ last.outcome = "ok")
        => \E i, j \in DOMAIN last.calls :
              /\ i < j
              /\ last.calls[i].f = "assign_winding"
              /\ last.calls[i].args[1] = last.arg \o <<"_", "for_winding">>
              /\ last.calls[j].f = "add_winding_coils"
              /\ last.calls[j].args =
                   << last.arg \o <<"_", "for_winding">>, last.arg \o <<"_", "for_coil">> >>

\* the variable, geometry, excitation, mesh, crack and region methods
SessionMethods ==
    CoilCreators
    \cup {"create_project_variable", "create_cylinder", "create_box", "create_specimen",
          "specimen_with_crack", "length_mesh", "skin_depth_mesh", "region_assign",
          "transient_type_assign_excitation", "ec_type_assign_excitation"}

\* C40: before simulation_init has succeeded on a session, every variable,
\* geometry, excitation, mesh, crack and region operation on that session
\* fails and leaves all registries, the crack counter and the region flag
\* unchanged; in particular a session constructed with a solver type other
\* than 'Transient' or 'EddyCurrent' can never register anything.
C40_NothingBeforeInit ==
    [][ /\ (~maxwell_3d /\ last'.op \in SessionMethods)
              => /\ last'.outcome = "error"
                 /\ UNCHANGED <<coil_names, cylinder_names, box_names, specimen_name,
                                coil_for_assign, variable_names, crack_counter, boundary>>
        /\ solution_type \notin {"Transient", "EddyCurrent"}
              => /\ ~maxwell_3d'
                 /\ coil_names' = <<>> /\ cylinder_names' = <<>> /\ box_names' = <<>>
                 /\ specimen_name' = <<>> /\ coil_for_assign' = <<>>
                 /\ Len(variable_names') = 3 /\ crack_counter' = 0 /\ boundary' = <<>>
      ]_vars

\* a geometry method was refused on a session whose simulation_init had
\* failed for its solver type
C40_Witness ==
    /\ solution_type \notin {"Transient", "EddyCurrent"}
    /\ ~maxwell_3d
    /\ last.op = "create_box"
    /\ last.outcome = "error"
====
